---------------------------- MODULE Spec2Model ----------------------------
(***************************************************************************)
(* State-machine models of three RSTM concurrency-control algorithms:      *)
(*   Pipeline-Turbo  (src/libstm/algs/PipelineTurbo.cpp)   variables pt_*  *)
(*   LLT-AMD64       (src/libstm/algs/LLTAMD64.cpp)        variables llt_* *)
(*   Cohort-Eager    (src/lib/CohortsEager.cpp)            variables ce_*  *)
(* Every action performs at most one access to shared memory (a load, a    *)
(* store or an atomic read-modify-write) together with the thread-local    *)
(* work that surrounds it, under sequential consistency.                   *)
(***************************************************************************)
EXTENDS Integers, Sequences, FiniteSets, TLC

(***************************************************************************)
(* Workload shared by the three models: transactional programs over two    *)
(* words.  An operation is a read of a word or a write of (the value last  *)
(* read or written for that word by this transaction) + d.                 *)
(***************************************************************************)
Addr == {1, 2}

R(a) == [k |-> "r", a |-> a, d |-> 0]

W(a, d) == [k |-> "w", a |-> a, d |-> d]

Xfer12 == << R(1), W(1, -1), R(2), W(2, 1) >>

Xfer21 == << R(2), W(2, -2), R(1), W(1, 1), R(2), W(2, 1) >>

Audit == << R(1), R(2) >>

Incr == << R(1), W(1, 1) >>

IncBoth == << R(1), W(1, 1), R(2), W(2, 1) >>

InitMem == [a \in Addr |-> 0]

NoRegs == [a \in Addr |-> 0]

\* The orec covering an address: one orec per word of the workload.
get_orec(a) == a

\* Redo log (WriteSet): insertion-ordered, one entry per address, last write wins.
WSHas(ws, a) == \E i \in 1..Len(ws) : ws[i][1] = a

WSIndex(ws, a) == CHOOSE i \in 1..Len(ws) : ws[i][1] = a

WSFind(ws, a) == ws[WSIndex(ws, a)][2]

WSInsert(ws, a, v) ==
  IF WSHas(ws, a) THEN [ws EXCEPT ![WSIndex(ws, a)] = <<a, v>>]
  ELSE Append(ws, <<a, v>>)

\* Serial execution of one program on a memory.
RECURSIVE RunFrom(_, _, _, _)
RunFrom(prog, i, m, regs) ==
  IF i > Len(prog) THEN m
  ELSE LET op == prog[i] IN
       IF op.k = "r"
       THEN RunFrom(prog, i + 1, m, [regs EXCEPT ![op.a] = m[op.a]])
       ELSE RunFrom(prog, i + 1, [m EXCEPT ![op.a] = regs[op.a] + op.d],
                    [regs EXCEPT ![op.a] = regs[op.a] + op.d])

RunSerial(prog, m) == RunFrom(prog, 1, m, NoRegs)

\* Serial memory after the first k programs of a commit log.
RECURSIVE SerialMem(_, _)
SerialMem(clog, k) ==
  IF k = 0 THEN InitMem ELSE RunSerial(clog[k], SerialMem(clog, k - 1))

WritesOf(prog) == {prog[i].a : i \in {j \in 1..Len(prog) : prog[j].k = "w"}}

Sum(m) == m[1] + m[2]

IncBothRev == << R(2), W(2, 1), R(1), W(1, 1), R(2) >>

Peek == << R(1) >>

VARIABLES
  \* Pipeline-Turbo
  pt_timestamp, pt_last_complete, pt_mem, pt_orec, pt_tx, pt_loc, pt_clog, pt_memw,
  pt_timestamp_max, pt_installed,
  \* LLT-AMD64
  llt_clock, llt_mem, llt_orec, llt_tx, llt_loc, llt_wlog, llt_memw, llt_commits,
  \* Cohort-Eager
  ce_started, ce_cpending, ce_committed, ce_last_order, ce_last_complete, ce_inplace,
  ce_mem, ce_orec, ce_tx, ce_loc, ce_clog

pt_vars == << pt_timestamp, pt_last_complete, pt_mem, pt_orec, pt_tx, pt_loc,
              pt_clog, pt_memw >>

llt_vars == << llt_clock, llt_mem, llt_orec, llt_tx, llt_loc, llt_wlog, llt_memw,
               llt_commits >>

ce_vars == << ce_started, ce_cpending, ce_committed, ce_last_order, ce_last_complete,
              ce_inplace, ce_mem, ce_orec, ce_tx, ce_loc, ce_clog >>

\* What the switch to Pipeline-Turbo reads, and whether it has run.
pt_switch == << pt_timestamp_max, pt_installed >>

vars == << pt_vars, pt_switch, llt_vars, ce_vars >>

(***************************************************************************)
(*                           Pipeline-Turbo                                *)
(***************************************************************************)
\* Fresh transactions begun in a run (the bound of the model).
PTMaxTx == 4

PTThreads == {1, 2, 3}

\* The workload: thread 1 transfers from word 1 to word 2, thread 2 from word 2
\* to word 1 (writing word 2 before and after it reads word 1) or reads both
\* words, thread 3 reads both.
PTPrograms(t) == IF t = 1 THEN {Xfer12} ELSE IF t = 2 THEN {Xfer21, Audit} ELSE {Audit}

PTInit ==
  /\ pt_timestamp = 0
  /\ pt_last_complete = 0
  /\ pt_mem = InitMem
  /\ pt_orec = [o \in Addr |-> 0]
  /\ pt_tx = [t \in PTThreads |->
               [order |-> -1, ts_cache |-> 0, r_orecs |-> <<>>, writes |-> <<>>,
                mode |-> "ro"]]
  /\ pt_loc = [t \in PTThreads |->
                [pc |-> "idle", prog |-> <<>>, ip |-> 1, regs |-> NoRegs,
                 tmp |-> 0, tmpw |-> 0, fc |-> 0, i |-> 1,
                 rlog |-> <<>>, wl |-> <<>>]]
  /\ pt_clog = <<>>
  /\ pt_memw = [a \in Addr |-> 0]
  /\ pt_timestamp_max = 0
  /\ pt_installed = TRUE

\* Mutant: the version check is off by one.
PTTooNew_OffByOne(ivt, ts_cache) == ivt > ts_cache + 1

\* An orec version the reader must not accept: newer than its ts_cache.
PTTooNew(ivt, ts_cache) == ivt > ts_cache

\* Mutant: no transaction is ever the oldest.
PTIsOldest_Never(ts_cache, order) == FALSE

\* Mutant: turbo mode for any transaction that is not yet complete.
PTIsOldest_Le(ts_cache, order) == ts_cache <= order - 1

\* The transaction is the oldest one: every smaller order has completed.
PTIsOldest(ts_cache, order) == ts_cache = order - 1

\* Mutant: the writer marks the orec with the previous order.
PTMark_Stale(order) == order - 1

\* The value a writer stores into the orec of a word it writes.
PTMark(order) == order

\* Mutant: the commit does not wait for the smaller orders.
PTMyTurn_NoWait(lc, order) == lc <= order - 1

\* Mutant: the commit waits for its own order to complete.
PTMyTurn_Self(lc, order) == lc = order

\* The commit's wait loop ends: last_complete.val == order - 1.
PTMyTurn(lc, order) == lc = order - 1

PTOp(t) == pt_loc[t].prog[pt_loc[t].ip]

PTInBody(t) == pt_loc[t].pc = "body" /\ pt_loc[t].ip <= Len(pt_loc[t].prog)

PTAtEnd(t) == pt_loc[t].pc = "body" /\ pt_loc[t].ip > Len(pt_loc[t].prog)

\* tmabort() followed by PipelineTurboRollback and the retry's entry into begin:
\* the logs are reset, order and the dispatch mode are kept.
PTAbort(t) ==
  /\ pt_tx' = [pt_tx EXCEPT ![t].r_orecs = <<>>, ![t].writes = <<>>]
  /\ pt_loc' = [pt_loc EXCEPT ![t].pc = "b_ts", ![t].ip = 1, ![t].regs = NoRegs,
                              ![t].rlog = <<>>, ![t].wl = <<>>, ![t].i = 1,
                              ![t].tmp = 0, ![t].tmpw = 0, ![t].fc = 0]

\* The read of operation PTOp(t) returns v (w: the order of the transaction that
\* stored it, own: whether the transaction had written the word itself).
PTReturned(l, a, v, w) ==
  [l EXCEPT !.pc = "body", !.ip = l.ip + 1, !.regs[a] = v, !.i = 1,
            !.tmp = 0, !.tmpw = 0, !.fc = 0,
            !.rlog = Append(l.rlog, [a |-> a, v |-> v, w |-> w,
                                     own |-> WSHas(l.wl, a),
                                     ov |-> IF WSHas(l.wl, a) THEN WSFind(l.wl, a) ELSE 0])]

\* Mutant: the order is the fetched timestamp itself.
PTNewOrder_Fetched(ts) == ts

\* tx->order = 1 + faiptr(&timestamp.val), ts the fetched value.
PTNewOrder(ts) == 1 + ts

\* PipelineTurboBegin, first half: a fresh transaction takes its order.
PTBeginOrder(t) ==
  /\ pt_loc[t].pc = "idle"
  /\ pt_tx[t].order = -1
  /\ pt_timestamp < PTMaxTx
  /\ \E p \in PTPrograms(t) :
       pt_loc' = [pt_loc EXCEPT ![t].pc = "b_ts", ![t].prog = p, ![t].ip = 1,
                                ![t].regs = NoRegs, ![t].rlog = <<>>,
                                ![t].wl = <<>>]
  /\ pt_tx' = [pt_tx EXCEPT ![t].order = PTNewOrder(pt_timestamp)]
  /\ pt_timestamp' = pt_timestamp + 1
  /\ UNCHANGED << pt_last_complete, pt_mem, pt_orec, pt_clog, pt_memw >>

\* PipelineTurboBegin, second half: sample last_complete, go turbo if oldest.
PTBeginTs(t) ==
  /\ pt_loc[t].pc = "b_ts"
  /\ pt_tx' = [pt_tx EXCEPT ![t].ts_cache = pt_last_complete,
                            ![t].mode = IF PTIsOldest(pt_last_complete, pt_tx[t].order)
                                        THEN "turbo" ELSE @]
  /\ pt_loc' = [pt_loc EXCEPT ![t].pc = "body"]
  /\ UNCHANGED << pt_timestamp, pt_last_complete, pt_mem, pt_orec, pt_clog, pt_memw >>

\* Mutant: the turbo read checks the orec like the other two reads.
PTReadChecksOrec_Always(mode) == TRUE

\* The read a transaction is dispatched to checks the orec: ReadRO and ReadRW
\* do, ReadTurbo does not.
PTReadChecksOrec(mode) == mode # "turbo"

\* PipelineTurboReadTurbo: a direct load.
PTReadTurbo(t) ==
  /\ PTInBody(t) /\ PTOp(t).k = "r" /\ ~ PTReadChecksOrec(pt_tx[t].mode)
  /\ pt_loc' = [pt_loc EXCEPT ![t] =
                  PTReturned(pt_loc[t], PTOp(t).a, pt_mem[PTOp(t).a], pt_memw[PTOp(t).a])]
  /\ UNCHANGED << pt_timestamp, pt_last_complete, pt_mem, pt_orec, pt_tx, pt_clog, pt_memw >>

\* PipelineTurboReadRW, REDO_RAW_CHECK hit: the buffered value is returned.
PTReadRAW(t) ==
  /\ PTInBody(t) /\ PTOp(t).k = "r" /\ pt_tx[t].mode = "rw"
  /\ WSHas(pt_tx[t].writes, PTOp(t).a)
  /\ pt_loc' = [pt_loc EXCEPT ![t] =
                  PTReturned(pt_loc[t], PTOp(t).a, WSFind(pt_tx[t].writes, PTOp(t).a),
                             pt_tx[t].order)]
  /\ UNCHANGED << pt_timestamp, pt_last_complete, pt_mem, pt_orec, pt_tx, pt_clog, pt_memw >>

\* PipelineTurboReadRO / ReadRW: tmp = *addr.
PTReadLoad(t) ==
  /\ PTInBody(t) /\ PTOp(t).k = "r" /\ PTReadChecksOrec(pt_tx[t].mode)
  /\ ~ (pt_tx[t].mode = "rw" /\ WSHas(pt_tx[t].writes, PTOp(t).a))
  /\ pt_loc' = [pt_loc EXCEPT ![t].pc = "r_orec", ![t].tmp = pt_mem[PTOp(t).a],
                              ![t].tmpw = pt_memw[PTOp(t).a]]
  /\ UNCHANGED << pt_timestamp, pt_last_complete, pt_mem, pt_orec, pt_tx, pt_clog, pt_memw >>

\* ... ivt = o->v.all; abort if too new, else log the orec.
PTReadOrec(t) ==
  /\ pt_loc[t].pc = "r_orec"
  /\ IF PTTooNew(pt_orec[get_orec(PTOp(t).a)], pt_tx[t].ts_cache)
     THEN PTAbort(t)
     ELSE /\ pt_tx' = [pt_tx EXCEPT ![t].r_orecs = Append(@, get_orec(PTOp(t).a))]
          /\ pt_loc' = [pt_loc EXCEPT ![t].pc = "r_lc"]
  /\ UNCHANGED << pt_timestamp, pt_last_complete, pt_mem, pt_orec, pt_clog, pt_memw >>

\* ... if (last_complete.val > tx->ts_cache): validate, else return tmp.
PTReadCheckLC(t) ==
  /\ pt_loc[t].pc = "r_lc"
  /\ pt_loc' = [pt_loc EXCEPT ![t] =
                  IF pt_last_complete > pt_tx[t].ts_cache
                  THEN [@ EXCEPT !.pc = "r_fc"]
                  ELSE PTReturned(@, PTOp(t).a, @.tmp, @.tmpw)]
  /\ UNCHANGED << pt_timestamp, pt_last_complete, pt_mem, pt_orec, pt_tx, pt_clog, pt_memw >>

\* ... the argument of PipelineTurboValidate is a second load of last_complete.
PTReadFinishCache(t) ==
  /\ pt_loc[t].pc = "r_fc"
  /\ pt_loc' = [pt_loc EXCEPT ![t].pc = "val", ![t].fc = pt_last_complete, ![t].i = 1]
  /\ UNCHANGED << pt_timestamp, pt_last_complete, pt_mem, pt_orec, pt_tx, pt_clog, pt_memw >>

\* PipelineTurboValidate: one orec of the read set per step; after the last one
\* ts_cache <- finish_cache, and the oldest transaction with a non-empty redo log
\* goes on to flush it.
PTValidate(t) ==
  /\ pt_loc[t].pc = "val"
  /\ LET tx == pt_tx[t]
         l == pt_loc[t]
     IN IF PTTooNew(pt_orec[tx.r_orecs[l.i]], tx.ts_cache)
        THEN PTAbort(t)
        ELSE IF l.i < Len(tx.r_orecs)
        THEN /\ pt_loc' = [pt_loc EXCEPT ![t].i = l.i + 1]
             /\ UNCHANGED pt_tx
        ELSE /\ pt_tx' = [pt_tx EXCEPT ![t].ts_cache = l.fc]
             /\ pt_loc' = [pt_loc EXCEPT ![t] =
                             IF PTIsOldest(l.fc, tx.order) /\ Len(tx.writes) # 0
                             THEN [l EXCEPT !.pc = "fl_o", !.i = 1]
                             ELSE PTReturned(l, PTOp(t).a, l.tmp, l.tmpw)]
  /\ UNCHANGED << pt_timestamp, pt_last_complete, pt_mem, pt_orec, pt_clog, pt_memw >>

\* Promotion flush / commit write-back: o->v.all = tx->order.
PTMarkOrec(t) ==
  /\ pt_loc[t].pc \in {"fl_o", "c_wb_o"}
  /\ pt_orec' = [pt_orec EXCEPT ![get_orec(pt_tx[t].writes[pt_loc[t].i][1])] =
                                  PTMark(pt_tx[t].order)]
  /\ pt_loc' = [pt_loc EXCEPT ![t].pc = IF @ = "fl_o" THEN "fl_m" ELSE "c_wb_m"]
  /\ UNCHANGED << pt_timestamp, pt_last_complete, pt_mem, pt_tx, pt_clog, pt_memw >>

\* Promotion flush: *i->addr = i->val; after the last entry GoTurbo and the
\* interrupted read returns.
PTFlushMem(t) ==
  /\ pt_loc[t].pc = "fl_m"
  /\ LET tx == pt_tx[t]
         l == pt_loc[t]
         e == tx.writes[l.i]
     IN /\ pt_mem' = [pt_mem EXCEPT ![e[1]] = e[2]]
        /\ pt_memw' = [pt_memw EXCEPT ![e[1]] = tx.order]
        /\ IF l.i < Len(tx.writes)
           THEN /\ pt_loc' = [pt_loc EXCEPT ![t].pc = "fl_o", ![t].i = l.i + 1]
                /\ UNCHANGED pt_tx
           ELSE /\ pt_tx' = [pt_tx EXCEPT ![t].mode = "turbo"]
                /\ pt_loc' = [pt_loc EXCEPT ![t] = PTReturned(l, PTOp(t).a, l.tmp, l.tmpw)]
  /\ UNCHANGED << pt_timestamp, pt_last_complete, pt_orec, pt_clog >>

\* PipelineTurboWriteRO / WriteRW: buffer in the redo log (OnFirstWrite: go RW).
PTWriteBuffer(t) ==
  /\ PTInBody(t) /\ PTOp(t).k = "w" /\ pt_tx[t].mode # "turbo"
  /\ LET a == PTOp(t).a
         v == pt_loc[t].regs[a] + PTOp(t).d
     IN /\ pt_tx' = [pt_tx EXCEPT ![t].writes = WSInsert(@, a, v), ![t].mode = "rw"]
        /\ pt_loc' = [pt_loc EXCEPT ![t].ip = @ + 1, ![t].regs[a] = v,
                                    ![t].wl = WSInsert(@, a, v)]
  /\ UNCHANGED << pt_timestamp, pt_last_complete, pt_mem, pt_orec, pt_clog, pt_memw >>

\* PipelineTurboWriteTurbo: o->v.all = tx->order ...
PTWriteTurboOrec(t) ==
  /\ PTInBody(t) /\ PTOp(t).k = "w" /\ pt_tx[t].mode = "turbo"
  /\ pt_orec' = [pt_orec EXCEPT ![get_orec(PTOp(t).a)] = PTMark(pt_tx[t].order)]
  /\ pt_loc' = [pt_loc EXCEPT ![t].pc = "wt_m"]
  /\ UNCHANGED << pt_timestamp, pt_last_complete, pt_mem, pt_tx, pt_clog, pt_memw >>

\* ... then the in-place store.
PTWriteTurboMem(t) ==
  /\ pt_loc[t].pc = "wt_m"
  /\ LET a == PTOp(t).a
         v == pt_loc[t].regs[a] + PTOp(t).d
     IN /\ pt_mem' = [pt_mem EXCEPT ![a] = v]
        /\ pt_memw' = [pt_memw EXCEPT ![a] = pt_tx[t].order]
        /\ pt_loc' = [pt_loc EXCEPT ![t].pc = "body", ![t].ip = @ + 1, ![t].regs[a] = v,
                                    ![t].wl = WSInsert(@, a, v)]
  /\ UNCHANGED << pt_timestamp, pt_last_complete, pt_orec, pt_tx, pt_clog >>

\* The store last_complete.val = tx->order, which marks the transaction complete.
PTComplete(t, kind) ==
  /\ pt_last_complete' = pt_tx[t].order
  /\ pt_clog' = Append(pt_clog, [prog |-> pt_loc[t].prog, kind |-> kind,
                                  wl |-> pt_loc[t].wl, fl |-> pt_tx[t].writes])
  /\ pt_loc' = [pt_loc EXCEPT ![t].pc = "c_fin"]
  /\ UNCHANGED pt_tx

\* The rest of the three commit routines, all on the thread's own descriptor:
\* tx->order = -1, the lists are reset, ResetToRO.
PTCommitReset(t) ==
  /\ pt_loc[t].pc = "c_fin"
  /\ pt_tx' = [pt_tx EXCEPT ![t].order = -1, ![t].r_orecs = <<>>, ![t].writes = <<>>,
                            ![t].mode = "ro"]
  /\ pt_loc' = [pt_loc EXCEPT ![t].pc = "idle", ![t].ip = 1, ![t].i = 1,
                              ![t].rlog = <<>>, ![t].wl = <<>>, ![t].regs = NoRegs]
  /\ UNCHANGED << pt_timestamp, pt_last_complete, pt_mem, pt_orec, pt_clog, pt_memw >>

\* PipelineTurboCommitTurbo.
PTCommitTurbo(t) ==
  /\ PTAtEnd(t) /\ pt_tx[t].mode = "turbo"
  /\ PTComplete(t, "turbo")
  /\ UNCHANGED << pt_timestamp, pt_mem, pt_orec, pt_memw >>

\* Mutant: the writing commit skips its write-back.
PTAfterValidation_NoWriteBack(tx) == "c_done"

\* The phase of CommitRO / CommitRW that follows the validation loop.
PTAfterValidation(tx) ==
  IF tx.mode = "rw" /\ Len(tx.writes) # 0 THEN "c_wb_o" ELSE "c_done"

\* PipelineTurboCommitRO / CommitRW: the wait loop is left when it is our turn.
PTCommitWait(t) ==
  /\ PTAtEnd(t) /\ pt_tx[t].mode # "turbo"
  /\ PTMyTurn(pt_last_complete, pt_tx[t].order)
  /\ pt_loc' = [pt_loc EXCEPT ![t].pc = IF Len(pt_tx[t].r_orecs) = 0
                                        THEN PTAfterValidation(pt_tx[t]) ELSE "c_val",
                              ![t].i = 1]
  /\ UNCHANGED << pt_timestamp, pt_last_complete, pt_mem, pt_orec, pt_tx, pt_clog, pt_memw >>

\* ... the validation loop of the commit, one orec per step.
PTCommitValidate(t) ==
  /\ pt_loc[t].pc = "c_val"
  /\ LET tx == pt_tx[t]
         l == pt_loc[t]
     IN IF PTTooNew(pt_orec[tx.r_orecs[l.i]], tx.ts_cache)
        THEN PTAbort(t)
        ELSE /\ pt_loc' = [pt_loc EXCEPT ![t] =
                             IF l.i < Len(tx.r_orecs) THEN [l EXCEPT !.i = l.i + 1]
                             ELSE [l EXCEPT !.pc = PTAfterValidation(tx), !.i = 1]]
             /\ UNCHANGED pt_tx
  /\ UNCHANGED << pt_timestamp, pt_last_complete, pt_mem, pt_orec, pt_clog, pt_memw >>

\* PipelineTurboCommitRW write-back: *i->addr = i->val.
PTCommitWriteBack(t) ==
  /\ pt_loc[t].pc = "c_wb_m"
  /\ LET tx == pt_tx[t]
         l == pt_loc[t]
         e == tx.writes[l.i]
     IN /\ pt_mem' = [pt_mem EXCEPT ![e[1]] = e[2]]
        /\ pt_memw' = [pt_memw EXCEPT ![e[1]] = tx.order]
        /\ pt_loc' = [pt_loc EXCEPT ![t] =
                        IF l.i < Len(tx.writes) THEN [l EXCEPT !.pc = "c_wb_o", !.i = l.i + 1]
                        ELSE [l EXCEPT !.pc = "c_done"]]
  /\ UNCHANGED << pt_timestamp, pt_last_complete, pt_orec, pt_tx, pt_clog >>

\* PipelineTurboCommitRO / CommitRW: mark self as complete.
PTCommitDone(t) ==
  /\ pt_loc[t].pc = "c_done"
  /\ PTComplete(t, pt_tx[t].mode)
  /\ UNCHANGED << pt_timestamp, pt_mem, pt_orec, pt_memw >>

PTFrame == UNCHANGED << pt_switch, llt_vars, ce_vars >>

PTStep(t) ==
  \/ PTBeginOrder(t) /\ PTFrame
  \/ PTBeginTs(t) /\ PTFrame
  \/ PTReadTurbo(t) /\ PTFrame
  \/ PTReadRAW(t) /\ PTFrame
  \/ PTReadLoad(t) /\ PTFrame
  \/ PTReadOrec(t) /\ PTFrame
  \/ PTReadCheckLC(t) /\ PTFrame
  \/ PTReadFinishCache(t) /\ PTFrame
  \/ PTValidate(t) /\ PTFrame
  \/ PTMarkOrec(t) /\ PTFrame
  \/ PTFlushMem(t) /\ PTFrame
  \/ PTWriteBuffer(t) /\ PTFrame
  \/ PTWriteTurboOrec(t) /\ PTFrame
  \/ PTWriteTurboMem(t) /\ PTFrame
  \/ PTCommitTurbo(t) /\ PTFrame
  \/ PTCommitWait(t) /\ PTFrame
  \/ PTCommitValidate(t) /\ PTFrame
  \/ PTCommitWriteBack(t) /\ PTFrame
  \/ PTCommitDone(t) /\ PTFrame
  \/ PTCommitReset(t) /\ PTFrame

PTNext == \E t \in PTThreads : PTStep(t)

\* The largest value the previous algorithm left in timestamp, timestamp_max,
\* last_complete or a thread's order (a bound of the model).
PTMaxStamp == 2

\* The state another algorithm leaves behind before Pipeline-Turbo is
\* installed: no transaction is running, and timestamp, timestamp_max,
\* last_complete and the threads' order fields hold whatever it stored there.
PTInitSwitch ==
  /\ pt_timestamp \in 0..PTMaxStamp
  /\ pt_timestamp_max \in 0..PTMaxStamp
  /\ pt_last_complete \in 0..PTMaxStamp
  /\ pt_mem = InitMem
  /\ pt_orec = [o \in Addr |-> 0]
  /\ pt_tx \in [PTThreads ->
                 [order : {-1, PTMaxStamp}, ts_cache : {0}, r_orecs : {<<>>},
                  writes : {<<>>}, mode : {"ro"}]]
  /\ pt_loc = [t \in PTThreads |->
                [pc |-> "idle", prog |-> <<>>, ip |-> 1, regs |-> NoRegs,
                 tmp |-> 0, tmpw |-> 0, fc |-> 0, i |-> 1,
                 rlog |-> <<>>, wl |-> <<>>]]
  /\ pt_clog = <<>>
  /\ pt_memw = [a \in Addr |-> 0]
  /\ pt_installed = FALSE

\* Mutant: the switch leaves the threads' orders as they are.
PTSwitchOrder_Keep(order) == order

\* threads[i]->order = -1
PTSwitchOrder(order) == -1

\* MAXIMUM(a, b)
MAXIMUM(a, b) == IF a > b THEN a ELSE b

\* PipelineTurboOnSwitchTo: runs once, while no transaction is running.
PTOnSwitchTo ==
  /\ ~ pt_installed
  /\ pt_timestamp' = MAXIMUM(pt_timestamp, pt_timestamp_max)
  /\ pt_last_complete' = pt_timestamp'
  /\ pt_tx' = [t \in PTThreads |-> [pt_tx[t] EXCEPT !.order = PTSwitchOrder(@)]]
  /\ pt_installed' = TRUE
  /\ UNCHANGED << pt_mem, pt_orec, pt_loc, pt_clog, pt_memw, pt_timestamp_max >>
  /\ UNCHANGED << llt_vars, ce_vars >>

\* Transactions run once the algorithm is installed.
PTSwitchNext ==
  \/ PTOnSwitchTo
  \/ pt_installed /\ PTNext

(***************************************************************************)
(*                              LLT-AMD64                                  *)
(***************************************************************************)
\* The largest value of the tick counter (the bound of the model).
LLTMaxTick == 3

LLTThreads == {1, 2, 3}

\* The workload: every writer reads the shared counter (word 1) and writes it
\* back incremented; threads 1 and 2 do so for word 2 as well, in opposite
\* orders; thread 3 reads the counter, or reads word 2 and increments the
\* counter.
IncrAfterPeek == << R(2), R(1), W(1, 1) >>

LLTPrograms(t) ==
  IF t = 1 THEN {IncBoth} ELSE IF t = 2 THEN {IncBothRev} ELSE {Peek, IncrAfterPeek}

\* The bit of an orec word that marks it as a lock id.
LockBit == 64

\* tx->my_lock.all: the lock id of thread t, above every version number.
my_lock(t) == LockBit + t

IsLocked(v) == v >= LockBit

LLTInit ==
  /\ llt_clock = 0
  /\ llt_mem = InitMem
  /\ llt_orec = [o \in Addr |-> [v |-> 0, p |-> 0, g |-> 0]]
  /\ llt_tx = [t \in LLTThreads |->
                [start_time |-> 0, r_orecs |-> <<>>, writes |-> <<>>, locks |-> <<>>,
                 mode |-> "ro"]]
  /\ llt_loc = [t \in LLTThreads |->
                 [pc |-> "idle", prog |-> <<>>, ip |-> 1, regs |-> NoRegs,
                  ivt |-> 0, tmp |-> 0, tmpw |-> 0, tmplk |-> FALSE, touched |-> FALSE,
                  lockedb |-> FALSE, end_time |-> 0, i |-> 1, last |-> 0, rlog |-> <<>>]]
  /\ llt_wlog = <<>>
  /\ llt_memw = [a \in Addr |-> 0]
  /\ llt_commits = 0

LLTReadValid_OneSample(ivt, ivt2, start_time) == ivt <= start_time

\* The check-twice read is valid: the orec never changed and is not too new.
LLTReadValid(ivt, ivt2, start_time) == ivt <= start_time /\ ivt = ivt2

\* Mutant: the locker saves the version after the one it replaced.
LLTSavedVersion_Next(ivt) == ivt + 1

\* Mutant: the locker saves no version.
LLTSavedVersion_None(ivt) == 0

\* o->p = ivt: the version the CAS replaced is saved in the orec.
LLTSavedVersion(ivt) == ivt

\* Mutant: the commit tries to lock every orec, whatever it holds.
LLTLockable_Any(ivt, start_time) == TRUE

\* The commit may try to lock an orec whose version is not newer than start_time.
LLTLockable(ivt, start_time) == ivt <= start_time

\* LLTAMD64Validate: an orec of the read set is newer than start_time and not
\* locked by the transaction itself.
LLTInvalid(ivt, start_time, lock) == ivt > start_time /\ ivt # lock

LLTOp(t) == llt_loc[t].prog[llt_loc[t].ip]

LLTInBody(t) == llt_loc[t].pc = "body" /\ llt_loc[t].ip <= Len(llt_loc[t].prog)

LLTAtEnd(t) == llt_loc[t].pc = "body" /\ llt_loc[t].ip > Len(llt_loc[t].prog)

\* tickp() by thread t: the values the tick counter can show.  The counter is
\* monotone, it may or may not have advanced since the last sample of any
\* thread (two threads may read the same value), and one thread never reads
\* the same value twice.
tickp(t) == {c \in {llt_clock, llt_clock + 1} : c > llt_loc[t].last /\ c <= LLTMaxTick}

\* The clean-up at the end of LLTAMD64Rollback, and the retry's entry into begin.
LLTReset(l) ==
  [l EXCEPT !.pc = "retry", !.ip = 1, !.regs = NoRegs, !.ivt = 0, !.tmp = 0,
            !.tmpw = 0, !.tmplk = FALSE, !.touched = FALSE, !.lockedb = FALSE,
            !.end_time = 0, !.i = 1, !.rlog = <<>>]

\* tmabort(): LLTAMD64Rollback restores the held orecs one store at a time; with
\* no lock held it only resets the lists.
LLTAbort(t) ==
  IF Len(llt_tx[t].locks) = 0
  THEN /\ llt_tx' = [llt_tx EXCEPT ![t].r_orecs = <<>>, ![t].writes = <<>>,
                                   ![t].mode = "ro"]
       /\ llt_loc' = [llt_loc EXCEPT ![t] = LLTReset(@)]
  ELSE /\ llt_loc' = [llt_loc EXCEPT ![t].pc = "rb", ![t].i = 1]
       /\ UNCHANGED llt_tx

\* The value in memory at address a was stored by a writer that still holds the
\* lock of the covering orec (its commit has not released it).
LLTUnreleased(a) ==
  LET v == llt_orec[get_orec(a)].v
      h == v - LockBit
  IN /\ IsLocked(v)
     /\ \/ llt_loc[h].pc = "c_rel"
        \/ llt_loc[h].pc = "c_wb" /\ WSIndex(llt_tx[h].writes, a) < llt_loc[h].i

\* A committing thread writes back under orec o or releases it: every reader
\* between its two samples of o is marked.
LLTTouch(l, t, o) ==
  [u \in LLTThreads |->
     IF u # t /\ l[u].pc \in {"r_val", "r_orec2"} /\ get_orec(l[u].prog[l[u].ip].a) = o
     THEN [l[u] EXCEPT !.touched = TRUE] ELSE l[u]]

\* A thread locks orec o: every reader between its two samples of o is marked.
LLTTouchLock(l, t, o) ==
  [u \in LLTThreads |->
     IF u # t /\ l[u].pc \in {"r_val", "r_orec2"} /\ get_orec(l[u].prog[l[u].ip].a) = o
     THEN [l[u] EXCEPT !.lockedb = TRUE] ELSE l[u]]

\* LLTAMD64Begin: start_time = tickp().
LLTBegin(t) ==
  /\ llt_loc[t].pc \in {"idle", "retry"}
  /\ \E c \in tickp(t) :
       /\ llt_clock' = c
       /\ llt_tx' = [llt_tx EXCEPT ![t].start_time = c]
       /\ \E p \in IF llt_loc[t].pc = "idle" THEN LLTPrograms(t) ELSE {llt_loc[t].prog} :
            llt_loc' = [llt_loc EXCEPT ![t].pc = "body", ![t].prog = p, ![t].ip = 1,
                                       ![t].last = c]
  /\ UNCHANGED << llt_mem, llt_orec, llt_wlog, llt_memw, llt_commits >>

LLTReturned(l, a, v, w, lk, touched, lockedb) ==
  [l EXCEPT !.pc = "body", !.ip = l.ip + 1, !.regs[a] = v, !.ivt = 0, !.tmp = 0,
            !.tmpw = 0, !.tmplk = FALSE, !.touched = FALSE, !.lockedb = FALSE,
            !.rlog = Append(l.rlog, [a |-> a, v |-> v, w |-> w, lk |-> lk,
                                     touched |-> touched, lockedb |-> lockedb])]

\* LLTAMD64ReadRW, REDO_RAW_CHECK hit: the buffered value is returned.
LLTReadRAW(t) ==
  /\ LLTInBody(t) /\ LLTOp(t).k = "r" /\ llt_tx[t].mode = "rw"
  /\ WSHas(llt_tx[t].writes, LLTOp(t).a)
  /\ llt_loc' = [llt_loc EXCEPT ![t].ip = @ + 1,
                                ![t].regs[LLTOp(t).a] = WSFind(llt_tx[t].writes, LLTOp(t).a)]
  /\ UNCHANGED << llt_clock, llt_mem, llt_orec, llt_tx, llt_wlog, llt_memw, llt_commits >>

\* LLTAMD64ReadRO / ReadRW: ivt = o->v.all.
LLTReadOrec1(t) ==
  /\ LLTInBody(t) /\ LLTOp(t).k = "r"
  /\ ~ (llt_tx[t].mode = "rw" /\ WSHas(llt_tx[t].writes, LLTOp(t).a))
  /\ llt_loc' = [llt_loc EXCEPT ![t].pc = "r_val",
                                ![t].ivt = llt_orec[get_orec(LLTOp(t).a)].v]
  /\ UNCHANGED << llt_clock, llt_mem, llt_orec, llt_tx, llt_wlog, llt_memw, llt_commits >>

\* ... tmp = *addr.
LLTReadLoad(t) ==
  /\ llt_loc[t].pc = "r_val"
  /\ llt_loc' = [llt_loc EXCEPT ![t].pc = "r_orec2", ![t].tmp = llt_mem[LLTOp(t).a],
                                ![t].tmpw = llt_memw[LLTOp(t).a],
                                ![t].tmplk = LLTUnreleased(LLTOp(t).a)]
  /\ UNCHANGED << llt_clock, llt_mem, llt_orec, llt_tx, llt_wlog, llt_memw, llt_commits >>

\* ... ivt2 = o->v.all; log the orec and return tmp when valid, else tmabort().
LLTReadOrec2(t) ==
  /\ llt_loc[t].pc = "r_orec2"
  /\ LET l == llt_loc[t]
         o == get_orec(LLTOp(t).a)
     IN IF LLTReadValid(l.ivt, llt_orec[o].v, llt_tx[t].start_time)
        THEN /\ llt_tx' = [llt_tx EXCEPT ![t].r_orecs = Append(@, o)]
             /\ llt_loc' = [llt_loc EXCEPT ![t] =
                              LLTReturned(l, LLTOp(t).a, l.tmp, l.tmpw, l.tmplk, l.touched,
                                          l.lockedb)]
        ELSE LLTAbort(t)
  /\ UNCHANGED << llt_clock, llt_mem, llt_orec, llt_wlog, llt_memw, llt_commits >>

\* LLTAMD64WriteRO / WriteRW: add to the redo log (OnFirstWrite: go RW).
LLTWrite(t) ==
  /\ LLTInBody(t) /\ LLTOp(t).k = "w"
  /\ LET a == LLTOp(t).a
         v == llt_loc[t].regs[a] + LLTOp(t).d
     IN /\ llt_tx' = [llt_tx EXCEPT ![t].writes = WSInsert(@, a, v), ![t].mode = "rw"]
        /\ llt_loc' = [llt_loc EXCEPT ![t].ip = @ + 1, ![t].regs[a] = v]
  /\ UNCHANGED << llt_clock, llt_mem, llt_orec, llt_wlog, llt_memw, llt_commits >>

\* LLTAMD64CommitRO: read-only, just reset the lists.
LLTCommitRO(t) ==
  /\ LLTAtEnd(t) /\ llt_tx[t].mode = "ro"
  /\ llt_tx' = [llt_tx EXCEPT ![t].r_orecs = <<>>]
  /\ llt_loc' = [llt_loc EXCEPT ![t] = [LLTReset(@) EXCEPT !.pc = "idle"]]
  /\ UNCHANGED << llt_clock, llt_mem, llt_orec, llt_wlog, llt_memw, llt_commits >>

\* LLTAMD64CommitRW, acquire loop: ivt = o->v.all for the next entry of the redo
\* log; go on to the CAS, skip an orec already held, or abort.
LLTLockRead(t) ==
  /\ \/ LLTAtEnd(t) /\ llt_tx[t].mode = "rw"
     \/ llt_loc[t].pc = "c_lock"
  /\ LET l == llt_loc[t]
         tx == llt_tx[t]
         o == get_orec(tx.writes[l.i][1])
         ivt == llt_orec[o].v
     IN IF LLTLockable(ivt, tx.start_time)
        THEN /\ llt_loc' = [llt_loc EXCEPT ![t].pc = "c_cas", ![t].ivt = ivt]
             /\ UNCHANGED llt_tx
        ELSE IF ivt # my_lock(t)
        THEN LLTAbort(t)
        ELSE /\ llt_loc' = [llt_loc EXCEPT ![t].pc = IF l.i < Len(tx.writes) THEN "c_lock"
                                                     ELSE "c_end",
                                           ![t].i = IF l.i < Len(tx.writes) THEN l.i + 1 ELSE 1]
             /\ UNCHANGED llt_tx
  /\ UNCHANGED << llt_clock, llt_mem, llt_orec, llt_wlog, llt_memw, llt_commits >>

\* ... bcasptr(&o->v.all, ivt, my_lock); on success o->p = ivt, locks.insert(o).
LLTLockCAS(t) ==
  /\ llt_loc[t].pc = "c_cas"
  /\ LET l == llt_loc[t]
         tx == llt_tx[t]
         o == get_orec(tx.writes[l.i][1])
     IN IF llt_orec[o].v = l.ivt
        THEN /\ llt_orec' = [llt_orec EXCEPT ![o] = [v |-> my_lock(t), p |-> LLTSavedVersion(l.ivt),
                                                       g |-> llt_orec[o].v]]
             /\ llt_tx' = [llt_tx EXCEPT ![t].locks = Append(@, o)]
             /\ llt_loc' = [LLTTouchLock(llt_loc, t, o) EXCEPT
                              ![t].pc = IF l.i < Len(tx.writes) THEN "c_lock" ELSE "c_end",
                              ![t].i = IF l.i < Len(tx.writes) THEN l.i + 1 ELSE 1,
                              ![t].ivt = 0]
        ELSE /\ LLTAbort(t)
             /\ UNCHANGED llt_orec
  /\ UNCHANGED << llt_clock, llt_mem, llt_wlog, llt_memw, llt_commits >>

\* ... end_time = tickp().
LLTEndTime(t) ==
  /\ llt_loc[t].pc = "c_end"
  /\ \E c \in tickp(t) :
       /\ llt_clock' = c
       /\ llt_loc' = [llt_loc EXCEPT ![t].pc = IF Len(llt_tx[t].r_orecs) = 0 THEN "c_wb"
                                               ELSE "c_val",
                                     ![t].end_time = c, ![t].last = c, ![t].i = 1]
  /\ UNCHANGED << llt_mem, llt_orec, llt_tx, llt_wlog, llt_memw, llt_commits >>

\* LLTAMD64Validate, one orec of the read set per step.
LLTValidate(t) ==
  /\ llt_loc[t].pc = "c_val"
  /\ LET l == llt_loc[t]
         tx == llt_tx[t]
     IN IF LLTInvalid(llt_orec[tx.r_orecs[l.i]].v, tx.start_time, my_lock(t))
        THEN LLTAbort(t)
        ELSE /\ llt_loc' = [llt_loc EXCEPT ![t] =
                              IF l.i < Len(tx.r_orecs) THEN [l EXCEPT !.i = l.i + 1]
                              ELSE [l EXCEPT !.pc = "c_wb", !.i = 1]]
             /\ UNCHANGED llt_tx
  /\ UNCHANGED << llt_clock, llt_mem, llt_orec, llt_wlog, llt_memw, llt_commits >>

\* tx->writes.writeback(), one store per step.  The first store makes the
\* transaction the next writer of the commit log.
LLTWriteBack(t) ==
  /\ llt_loc[t].pc = "c_wb"
  /\ LET l == llt_loc[t]
         tx == llt_tx[t]
         e == tx.writes[l.i]
         wid == IF l.i = 1 THEN Len(llt_wlog) + 1 ELSE Len(llt_wlog)
     IN /\ llt_mem' = [llt_mem EXCEPT ![e[1]] = e[2]]
        /\ llt_memw' = [llt_memw EXCEPT ![e[1]] = wid]
        /\ llt_wlog' = IF l.i = 1
                       THEN Append(llt_wlog, {tx.writes[j][1] : j \in 1..Len(tx.writes)})
                       ELSE llt_wlog
        /\ llt_loc' = [LLTTouch(llt_loc, t, get_orec(e[1])) EXCEPT
                         ![t].pc = IF l.i < Len(tx.writes) THEN "c_wb" ELSE "c_rel",
                         ![t].i = IF l.i < Len(tx.writes) THEN l.i + 1 ELSE 1]
  /\ UNCHANGED << llt_clock, llt_orec, llt_tx, llt_commits >>

\* ... release locks: (*i)->v.all = end_time; after the last one the clean-up.
LLTRelease(t) ==
  /\ llt_loc[t].pc = "c_rel"
  /\ LET l == llt_loc[t]
         tx == llt_tx[t]
         o == tx.locks[l.i]
     IN /\ llt_orec' = [llt_orec EXCEPT ![o].v = l.end_time]
        /\ IF l.i < Len(tx.locks)
           THEN /\ llt_loc' = [LLTTouch(llt_loc, t, o) EXCEPT ![t].i = l.i + 1]
                /\ UNCHANGED << llt_tx, llt_commits >>
           ELSE /\ llt_loc' = [LLTTouch(llt_loc, t, o) EXCEPT
                                 ![t] = [LLTReset(@) EXCEPT !.pc = "idle"]]
                /\ llt_tx' = [llt_tx EXCEPT ![t].r_orecs = <<>>, ![t].writes = <<>>,
                                            ![t].locks = <<>>, ![t].mode = "ro"]
                /\ llt_commits' = llt_commits + 1
  /\ UNCHANGED << llt_clock, llt_mem, llt_wlog, llt_memw >>

\* LLTAMD64Rollback: (*i)->v.all = (*i)->p for the held orecs, then the clean-up.
LLTRollback(t) ==
  /\ llt_loc[t].pc = "rb"
  /\ LET l == llt_loc[t]
         tx == llt_tx[t]
         o == tx.locks[l.i]
     IN /\ llt_orec' = [llt_orec EXCEPT ![o].v = llt_orec[o].p]
        /\ IF l.i < Len(tx.locks)
           THEN /\ llt_loc' = [llt_loc EXCEPT ![t].i = l.i + 1]
                /\ UNCHANGED llt_tx
           ELSE /\ llt_loc' = [llt_loc EXCEPT ![t] = LLTReset(@)]
                /\ llt_tx' = [llt_tx EXCEPT ![t].r_orecs = <<>>, ![t].writes = <<>>,
                                            ![t].locks = <<>>, ![t].mode = "ro"]
  /\ UNCHANGED << llt_clock, llt_mem, llt_wlog, llt_memw, llt_commits >>

LLTFrame == UNCHANGED << pt_vars, pt_switch, ce_vars >>

LLTStep(t) ==
  \/ LLTBegin(t) /\ LLTFrame
  \/ LLTReadRAW(t) /\ LLTFrame
  \/ LLTReadOrec1(t) /\ LLTFrame
  \/ LLTReadLoad(t) /\ LLTFrame
  \/ LLTReadOrec2(t) /\ LLTFrame
  \/ LLTWrite(t) /\ LLTFrame
  \/ LLTCommitRO(t) /\ LLTFrame
  \/ LLTLockRead(t) /\ LLTFrame
  \/ LLTLockCAS(t) /\ LLTFrame
  \/ LLTEndTime(t) /\ LLTFrame
  \/ LLTValidate(t) /\ LLTFrame
  \/ LLTWriteBack(t) /\ LLTFrame
  \/ LLTRelease(t) /\ LLTFrame
  \/ LLTRollback(t) /\ LLTFrame

LLTNext == \E t \in LLTThreads : LLTStep(t)

(***************************************************************************)
(*                            Cohort-Eager                                 *)
(***************************************************************************)
\* The largest value of `started` (the bound of the model).
CEMaxStarted == 3

CEThreads == {1, 2, 3}

\* The workload: a transfer between the two words, increments of word 1 and a
\* read-only audit.  No program reads a word after writing it (RAW is handled
\* outside of the read barrier).
CEPrograms(t) == IF t = 1 THEN {Xfer12} ELSE IF t = 2 THEN {Incr} ELSE {Audit, Incr}

CEInit ==
  /\ ce_started = 0 /\ ce_cpending = 0 /\ ce_committed = 0
  /\ ce_last_order = 0 /\ ce_last_complete = 0 /\ ce_inplace = 0
  /\ ce_mem = InitMem
  /\ ce_orec = [o \in Addr |-> 0]
  /\ ce_tx = [t \in CEThreads |->
               [order |-> 0, ts_cache |-> 0, r_orecs |-> <<>>, writes |-> <<>>,
                turbo |-> FALSE]]
  /\ ce_loc = [t \in CEThreads |->
                [pc |-> "b_spin", prog |-> <<>>, ip |-> 1, regs |-> NoRegs, first |-> "-",
                 tmp |-> 0, i |-> 1, rlog |-> <<>>, k0 |-> 0, d1 |-> FALSE,
                 dirty |-> FALSE, skipped |-> FALSE]]
  /\ ce_clog = <<>>

CEChanged_OffByOne(ivt, ts_cache) == ivt > ts_cache + 1

\* validate: the orec changed since the transaction's begin.
CEChanged(ivt, ts_cache) == ivt > ts_cache

CENotAllReady_ButOne(cpending, started) == cpending + 1 < started

\* Mutant: the wait does not end when everyone is ready.
CENotAllReady_OrEqual(cpending, started) == cpending <= started

\* alg_tm_end: wait until all transactions are ready to commit.
CENotAllReady(cpending, started) == cpending < started

CESomeoneReady_OrEqual(cpending, committed) == cpending >= committed

\* alg_tm_begin: someone is ready to commit.
CESomeoneReady(cpending, committed) == cpending > committed

\* alg_tm_end: only the first transaction of a cohort skips validation.
CEMustValidate(inplace, order, last_order) == inplace = 1 \/ order # last_order

CENextFirst_Last(started) == started

\* alg_tm_end: the order of the first transaction of the next cohort.
CENextFirst(started) == started + 1

CEOp(t) == ce_loc[t].prog[ce_loc[t].ip]

CEInBody(t) == ce_loc[t].pc = "body" /\ ce_loc[t].ip <= Len(ce_loc[t].prog)

CEAtEnd(t) == ce_loc[t].pc = "body" /\ ce_loc[t].ip > Len(ce_loc[t].prog)

\* The operands of a comparison of two volatile counters are read one after
\* the other, in either order: the first read.
CERead1(t, from, to, x, y) ==
  /\ ce_loc[t].pc = from
  /\ \E f \in {"x", "y"} :
       ce_loc' = [ce_loc EXCEPT ![t].pc = to, ![t].first = f,
                                ![t].tmp = IF f = "x" THEN x ELSE y,
                                ![t].d1 = (from = "b_chk" /\ ce_cpending # ce_committed)]
  /\ UNCHANGED << ce_started, ce_cpending, ce_committed, ce_last_order, ce_last_complete,
                  ce_inplace, ce_mem, ce_orec, ce_tx, ce_clog >>

\* The values of the two operands once the second one is read.
CEOperandX(t, x) == IF ce_loc[t].first = "x" THEN ce_loc[t].tmp ELSE x

CEOperandY(t, y) == IF ce_loc[t].first = "y" THEN ce_loc[t].tmp ELSE y

CEGoto(l, to) == [l EXCEPT !.pc = to, !.first = "-", !.tmp = 0, !.d1 = FALSE]

\* alg_tm_begin, S1: while (cpending != committed);
CEBeginSpin1(t) == CERead1(t, "b_spin", "b_spin2", ce_cpending, ce_committed)

CEBeginSpin2(t) ==
  /\ ce_loc[t].pc = "b_spin2"
  /\ ce_loc' = [ce_loc EXCEPT ![t] =
                  IF CEOperandX(t, ce_cpending) # CEOperandY(t, ce_committed)
                  THEN CEGoto(@, "b_spin") ELSE CEGoto(@, "b_add")]
  /\ UNCHANGED << ce_started, ce_cpending, ce_committed, ce_last_order, ce_last_complete,
                  ce_inplace, ce_mem, ce_orec, ce_tx, ce_clog >>

\* ... ADD(&started, 1).
CEBeginAdd(t) ==
  /\ ce_loc[t].pc = "b_add"
  /\ ce_started < CEMaxStarted
  /\ ce_started' = ce_started + 1
  /\ ce_loc' = [ce_loc EXCEPT ![t].pc = "b_chk"]
  /\ UNCHANGED << ce_cpending, ce_committed, ce_last_order, ce_last_complete,
                  ce_inplace, ce_mem, ce_orec, ce_tx, ce_clog >>

\* ... if (cpending > committed || inplace == 1): the comparison.
CEBeginCheck1(t) == CERead1(t, "b_chk", "b_chk2", ce_cpending, ce_committed)

CEBeginCheck2(t) ==
  /\ ce_loc[t].pc = "b_chk2"
  /\ ce_loc' = [ce_loc EXCEPT ![t] =
                  IF CESomeoneReady(CEOperandX(t, ce_cpending), CEOperandY(t, ce_committed))
                  THEN [CEGoto(@, "b_sub") EXCEPT
                          !.d1 = ce_loc[t].d1 \/ ce_cpending # ce_committed]
                  ELSE CEGoto(@, "b_inpl")]
  /\ UNCHANGED << ce_started, ce_cpending, ce_committed, ce_last_order, ce_last_complete,
                  ce_inplace, ce_mem, ce_orec, ce_tx, ce_clog >>

\* ... the read of inplace.
CEBeginInplace(t) ==
  /\ ce_loc[t].pc = "b_inpl"
  /\ ce_loc' = [ce_loc EXCEPT ![t].pc = IF ce_inplace = 1 THEN "b_sub" ELSE "b_ts"]
  /\ UNCHANGED << ce_started, ce_cpending, ce_committed, ce_last_order, ce_last_complete,
                  ce_inplace, ce_mem, ce_orec, ce_tx, ce_clog >>

\* Mutant: the back-off leaves started as it is.
CEBackOff_Stays(started) == started

\* alg_tm_begin: SUB(&started, 1) of the back-off.
CEBackOff(started) == started - 1

\* ... SUB(&started, 1); goto S1.
CEBeginBackOff(t) ==
  /\ ce_loc[t].pc = "b_sub"
  /\ ce_started' = CEBackOff(ce_started)
  /\ ce_loc' = [ce_loc EXCEPT ![t] = CEGoto(@, "b_spin")]
  /\ UNCHANGED << ce_cpending, ce_committed, ce_last_order, ce_last_complete,
                  ce_inplace, ce_mem, ce_orec, ce_tx, ce_clog >>

\* ... tx->ts_cache = last_complete.val; return.
CEBeginReturn(t) ==
  /\ ce_loc[t].pc = "b_ts"
  /\ ce_tx' = [ce_tx EXCEPT ![t].ts_cache = ce_last_complete]
  /\ \E p \in IF ce_loc[t].prog = <<>> THEN CEPrograms(t) ELSE {ce_loc[t].prog} :
       ce_loc' = [ce_loc EXCEPT ![t].pc = "body", ![t].prog = p, ![t].ip = 1,
                                ![t].regs = NoRegs, ![t].k0 = Len(ce_clog),
                                ![t].dirty = FALSE]
  /\ UNCHANGED << ce_started, ce_cpending, ce_committed, ce_last_order, ce_last_complete,
                  ce_inplace, ce_mem, ce_orec, ce_clog >>

\* The lists are reset at the end of a transaction; order and ts_cache are
\* assigned anew before their next use.
CEReset(tx) == [tx EXCEPT !.r_orecs = <<>>, !.writes = <<>>, !.order = 0, !.ts_cache = 0]

\* alg_tm_rollback and the retry's entry into alg_tm_begin.
CERollback(l) ==
  [l EXCEPT !.pc = "b_spin", !.ip = 1, !.regs = NoRegs, !.first = "-", !.tmp = 0,
            !.i = 1, !.rlog = <<>>, !.k0 = 0, !.d1 = FALSE, !.dirty = FALSE,
            !.skipped = FALSE]

\* The clean-up at the end of alg_tm_end; the thread goes on to its next
\* transaction, a program chosen when its begin returns.
CEDone(l) == [CERollback(l) EXCEPT !.prog = <<>>]

\* Read: log the orec, return *addr.
CERead(t) ==
  /\ CEInBody(t) /\ CEOp(t).k = "r"
  /\ LET a == CEOp(t).a
     IN /\ ce_tx' = [ce_tx EXCEPT ![t].r_orecs = Append(@, get_orec(a))]
        /\ ce_loc' = [ce_loc EXCEPT ![t].ip = @ + 1, ![t].regs[a] = ce_mem[a],
                                    ![t].rlog = Append(@, [a |-> a, v |-> ce_mem[a]])]
  /\ UNCHANGED << ce_started, ce_cpending, ce_committed, ce_last_order, ce_last_complete,
                  ce_inplace, ce_mem, ce_orec, ce_clog >>

\* Mutant: the in-place promotion of the first write is compiled in.
CEFirstWriteInPlace_On(size) == size = 0

\* Write: `if (!tx->writes.size() && 0)`, the guard of the in-place promotion.
CEFirstWriteInPlace(size) == size = 0 /\ FALSE

\* Write: in turbo mode mark the orec and write in place; on a first write
\* that passes the guard above, with everyone else ready to commit, set
\* inplace, write in place and go turbo; otherwise record the value in the
\* redo log.
CEWrite(t) ==
  /\ CEInBody(t) /\ CEOp(t).k = "w"
  /\ LET a == CEOp(t).a
         v == ce_loc[t].regs[a] + CEOp(t).d
     IN /\ ce_loc' = [ce_loc EXCEPT ![t].ip = @ + 1, ![t].regs[a] = v]
        /\ IF ce_tx[t].turbo
           THEN /\ ce_orec' = [ce_orec EXCEPT ![get_orec(a)] = ce_started]
                /\ ce_mem' = [ce_mem EXCEPT ![a] = v]
                /\ UNCHANGED << ce_tx, ce_inplace >>
           ELSE IF /\ CEFirstWriteInPlace(Len(ce_tx[t].writes))
                   /\ ce_cpending + 1 = ce_started
           THEN /\ ce_inplace' = 1
                /\ ce_orec' = [ce_orec EXCEPT ![get_orec(a)] = ce_started]
                /\ ce_mem' = [ce_mem EXCEPT ![a] = v]
                /\ ce_tx' = [ce_tx EXCEPT ![t].turbo = TRUE]
           ELSE /\ ce_tx' = [ce_tx EXCEPT ![t].writes = WSInsert(@, a, v)]
                /\ UNCHANGED << ce_orec, ce_mem, ce_inplace >>
  /\ UNCHANGED << ce_started, ce_cpending, ce_committed, ce_last_order, ce_last_complete,
                  ce_clog >>

\* Mutant: the read-only commit leaves started as it is.
CEReaderLeaves_Stays(started) == started

\* alg_tm_end, read-only: SUB(&started, 1).
CEReaderLeaves(started) == started - 1

\* alg_tm_end, read-only: SUB(&started, 1), clean up.
CECommitRO(t) ==
  /\ CEAtEnd(t) /\ ~ ce_tx[t].turbo /\ Len(ce_tx[t].writes) = 0
  /\ ce_started' = CEReaderLeaves(ce_started)
  /\ ce_tx' = [ce_tx EXCEPT ![t] = CEReset(@)]
  /\ ce_loc' = [ce_loc EXCEPT ![t] = CEDone(@)]
  /\ UNCHANGED << ce_cpending, ce_committed, ce_last_order, ce_last_complete,
                  ce_inplace, ce_mem, ce_orec, ce_clog >>

\* alg_tm_end, writer: tx->order = ADD(&cpending, 1).  (A transaction in turbo
\* mode, which no transaction ever is, would take the turbo commit instead.)
CEPend(t) ==
  /\ CEAtEnd(t) /\ (ce_tx[t].turbo \/ Len(ce_tx[t].writes) > 0)
  /\ ce_cpending' = ce_cpending + 1
  /\ IF ce_tx[t].turbo
     THEN /\ ce_last_complete = ce_cpending
          /\ ce_inplace' = 0
          /\ ce_last_complete' = ce_cpending + 1
          /\ ce_committed' = ce_committed + 1
          /\ ce_tx' = [ce_tx EXCEPT ![t] = [CEReset(@) EXCEPT !.turbo = FALSE]]
          /\ ce_loc' = [ce_loc EXCEPT ![t] = CEDone(@)]
     ELSE /\ ce_tx' = [ce_tx EXCEPT ![t].order = ce_cpending + 1]
          /\ ce_loc' = [ce_loc EXCEPT ![t].pc = "c_turn"]
          /\ UNCHANGED << ce_inplace, ce_last_complete, ce_committed >>
  /\ UNCHANGED << ce_started, ce_last_order, ce_mem, ce_orec, ce_clog >>

\* Mutant: the wait also ends while an earlier order is still committing.
CEMyTurn_Early(last_complete, order) == last_complete >= order - 2

\* alg_tm_end: the wait for the turn is over.
CEMyTurn(last_complete, order) == last_complete = order - 1

\* ... while (last_complete.val != order - 1);
CEWaitTurn(t) ==
  /\ ce_loc[t].pc = "c_turn"
  /\ CEMyTurn(ce_last_complete, ce_tx[t].order)
  /\ ce_loc' = [ce_loc EXCEPT ![t].pc = "c_all"]
  /\ UNCHANGED << ce_started, ce_cpending, ce_committed, ce_last_order, ce_last_complete,
                  ce_inplace, ce_mem, ce_orec, ce_tx, ce_clog >>

\* ... while (cpending < started);
CEWaitAll1(t) == CERead1(t, "c_all", "c_all2", ce_cpending, ce_started)

CEWaitAll2(t) ==
  /\ ce_loc[t].pc = "c_all2"
  /\ ce_loc' = [ce_loc EXCEPT ![t] =
                  IF CENotAllReady(CEOperandX(t, ce_cpending), CEOperandY(t, ce_started))
                  THEN CEGoto(@, "c_all") ELSE CEGoto(@, "c_inpl")]
  /\ UNCHANGED << ce_started, ce_cpending, ce_committed, ce_last_order, ce_last_complete,
                  ce_inplace, ce_mem, ce_orec, ce_tx, ce_clog >>

\* ... if (inplace == 1 || order != last_order) validate(tx): the read of inplace.
CEReadInplace(t) ==
  /\ ce_loc[t].pc = "c_inpl"
  /\ ce_loc' = [ce_loc EXCEPT ![t].pc = "c_lo", ![t].tmp = ce_inplace]
  /\ UNCHANGED << ce_started, ce_cpending, ce_committed, ce_last_order, ce_last_complete,
                  ce_inplace, ce_mem, ce_orec, ce_tx, ce_clog >>

\* ... the read of last_order (not made when inplace was 1).
CEReadLastOrder(t) ==
  /\ ce_loc[t].pc = "c_lo"
  /\ LET l == ce_loc[t]
         lo == IF l.tmp = 1 THEN 0 ELSE ce_last_order
     IN ce_loc' = [ce_loc EXCEPT ![t] =
          IF CEMustValidate(l.tmp, ce_tx[t].order, lo)
          THEN [l EXCEPT !.pc = IF Len(ce_tx[t].r_orecs) = 0 THEN "c_wbo" ELSE "c_val",
                         !.tmp = 0, !.i = 1]
          ELSE [l EXCEPT !.pc = "c_wbo", !.tmp = 0, !.i = 1, !.skipped = TRUE]]
  /\ UNCHANGED << ce_started, ce_cpending, ce_committed, ce_last_order, ce_last_complete,
                  ce_inplace, ce_mem, ce_orec, ce_tx, ce_clog >>

\* validate, one orec of the read set per step.
CEValidate(t) ==
  /\ ce_loc[t].pc = "c_val"
  /\ LET l == ce_loc[t]
         tx == ce_tx[t]
     IN ce_loc' = [ce_loc EXCEPT ![t] =
          IF CEChanged(ce_orec[tx.r_orecs[l.i]], tx.ts_cache)
          THEN [l EXCEPT !.pc = "v_cm", !.i = 1]
          ELSE IF l.i < Len(tx.r_orecs) THEN [l EXCEPT !.i = l.i + 1]
          ELSE [l EXCEPT !.pc = "c_wbo", !.i = 1]]
  /\ UNCHANGED << ce_started, ce_cpending, ce_committed, ce_last_order, ce_last_complete,
                  ce_inplace, ce_mem, ce_orec, ce_tx, ce_clog >>

\* committed++ (not atomic): the load.
CECommittedLoad(t) ==
  /\ ce_loc[t].pc \in {"v_cm", "c_cm"}
  /\ ce_loc' = [ce_loc EXCEPT ![t].pc = IF @ = "v_cm" THEN "v_cm2" ELSE "c_cm2",
                              ![t].tmp = ce_committed]
  /\ UNCHANGED << ce_started, ce_cpending, ce_committed, ce_last_order, ce_last_complete,
                  ce_inplace, ce_mem, ce_orec, ce_tx, ce_clog >>

\* committed++: the store.
CECommittedStore(t) ==
  /\ ce_loc[t].pc \in {"v_cm2", "c_cm2"}
  /\ ce_committed' = ce_loc[t].tmp + 1
  /\ ce_loc' = [ce_loc EXCEPT ![t].pc = IF @ = "v_cm2" THEN "v_lc" ELSE "c_st",
                              ![t].tmp = 0]
  /\ UNCHANGED << ce_started, ce_cpending, ce_last_order, ce_last_complete,
                  ce_inplace, ce_mem, ce_orec, ce_tx, ce_clog >>

\* Mutant: the aborting transaction does not mark itself completed.
CEAbortCompletes_Not(order, last_complete) == last_complete

\* validate: the value stored to last_complete before the abort.
CEAbortCompletes(order, last_complete) == order

\* validate: last_complete.val = tx->order; abort (alg_tm_rollback, retry).
CEValidateAbort(t) ==
  /\ ce_loc[t].pc = "v_lc"
  /\ ce_last_complete' = CEAbortCompletes(ce_tx[t].order, ce_last_complete)
  /\ ce_tx' = [ce_tx EXCEPT ![t] = CEReset(@)]
  /\ ce_loc' = [ce_loc EXCEPT ![t] = CERollback(@)]
  /\ UNCHANGED << ce_started, ce_cpending, ce_committed, ce_last_order,
                  ce_inplace, ce_mem, ce_orec, ce_clog >>

\* Memory after the first k writers of the commit log ran one at a time (each
\* entry of the log holds the result of running its program serially on the
\* result of the entry before).
CESerial(k) == IF k = 0 THEN InitMem ELSE ce_clog[k].mem

\* Thread t stores to an orec or to memory: every other transaction between
\* the return of its begin and the end of its commit is marked.
CEDirty(l, t) ==
  [u \in CEThreads |->
     IF u # t /\ l[u].pc \in {"body", "c_turn", "c_all", "c_all2", "c_inpl", "c_lo",
                              "c_val", "v_cm", "v_cm2", "c_wbo", "c_wbm", "c_cm",
                              "c_cm2", "c_st", "c_lost", "c_lc"}
     THEN [l[u] EXCEPT !.dirty = TRUE] ELSE l[u]]

\* alg_tm_end, write-back: o->v.all = tx->order.  With its first store the
\* transaction enters the commit log.
CEMarkOrec(t) ==
  /\ ce_loc[t].pc = "c_wbo"
  /\ LET l == ce_loc[t]
         tx == ce_tx[t]
     IN /\ ce_orec' = [ce_orec EXCEPT ![get_orec(tx.writes[l.i][1])] = tx.order]
        /\ ce_clog' = IF l.i = 1
                      THEN Append(ce_clog, [prog |-> l.prog, order |-> tx.order,
                                            mem |-> RunSerial(l.prog, CESerial(Len(ce_clog)))])
                      ELSE ce_clog
        /\ ce_loc' = [CEDirty(ce_loc, t) EXCEPT ![t].pc = "c_wbm"]
  /\ UNCHANGED << ce_started, ce_cpending, ce_committed, ce_last_order, ce_last_complete,
                  ce_inplace, ce_mem, ce_tx >>

\* ... i->value.writeTo(i->address).
CEWriteBack(t) ==
  /\ ce_loc[t].pc = "c_wbm"
  /\ LET l == ce_loc[t]
         tx == ce_tx[t]
     IN /\ ce_mem' = [ce_mem EXCEPT ![tx.writes[l.i][1]] = tx.writes[l.i][2]]
        /\ ce_loc' = [CEDirty(ce_loc, t) EXCEPT
                        ![t].pc = IF l.i < Len(tx.writes) THEN "c_wbo" ELSE "c_cm",
                        ![t].i = IF l.i < Len(tx.writes) THEN l.i + 1 ELSE 1]
  /\ UNCHANGED << ce_started, ce_cpending, ce_committed, ce_last_order, ce_last_complete,
                  ce_inplace, ce_orec, ce_tx, ce_clog >>

\* ... last_order = started + 1: the load of started.
CEStartedLoad(t) ==
  /\ ce_loc[t].pc = "c_st"
  /\ ce_loc' = [ce_loc EXCEPT ![t].pc = "c_lost", ![t].tmp = ce_started]
  /\ UNCHANGED << ce_started, ce_cpending, ce_committed, ce_last_order, ce_last_complete,
                  ce_inplace, ce_mem, ce_orec, ce_tx, ce_clog >>

\* ... the store to last_order.
CELastOrderStore(t) ==
  /\ ce_loc[t].pc = "c_lost"
  /\ ce_last_order' = CENextFirst(ce_loc[t].tmp)
  /\ ce_loc' = [ce_loc EXCEPT ![t].pc = "c_lc", ![t].tmp = 0]
  /\ UNCHANGED << ce_started, ce_cpending, ce_committed, ce_last_complete,
                  ce_inplace, ce_mem, ce_orec, ce_tx, ce_clog >>

\* ... last_complete.val = tx->order; reset all lists.
CEComplete(t) ==
  /\ ce_loc[t].pc = "c_lc"
  /\ ce_last_complete' = ce_tx[t].order
  /\ ce_tx' = [ce_tx EXCEPT ![t] = CEReset(@)]
  /\ ce_loc' = [ce_loc EXCEPT ![t] = CEDone(@)]
  /\ UNCHANGED << ce_started, ce_cpending, ce_committed, ce_last_order,
                  ce_inplace, ce_mem, ce_orec, ce_clog >>

CEFrame == UNCHANGED << pt_vars, pt_switch, llt_vars >>

CEStep(t) ==
  \/ CEBeginSpin1(t) /\ CEFrame
  \/ CEBeginSpin2(t) /\ CEFrame
  \/ CEBeginAdd(t) /\ CEFrame
  \/ CEBeginCheck1(t) /\ CEFrame
  \/ CEBeginCheck2(t) /\ CEFrame
  \/ CEBeginInplace(t) /\ CEFrame
  \/ CEBeginBackOff(t) /\ CEFrame
  \/ CEBeginReturn(t) /\ CEFrame
  \/ CERead(t) /\ CEFrame
  \/ CEWrite(t) /\ CEFrame
  \/ CECommitRO(t) /\ CEFrame
  \/ CEPend(t) /\ CEFrame
  \/ CEWaitTurn(t) /\ CEFrame
  \/ CEWaitAll1(t) /\ CEFrame
  \/ CEWaitAll2(t) /\ CEFrame
  \/ CEReadInplace(t) /\ CEFrame
  \/ CEReadLastOrder(t) /\ CEFrame
  \/ CEValidate(t) /\ CEFrame
  \/ CECommittedLoad(t) /\ CEFrame
  \/ CECommittedStore(t) /\ CEFrame
  \/ CEValidateAbort(t) /\ CEFrame
  \/ CEMarkOrec(t) /\ CEFrame
  \/ CEWriteBack(t) /\ CEFrame
  \/ CEStartedLoad(t) /\ CEFrame
  \/ CELastOrderStore(t) /\ CEFrame
  \/ CEComplete(t) /\ CEFrame

CENext == \E t \in CEThreads : CEStep(t)

Init == PTInit /\ LLTInit /\ CEInit

SpecPT == Init /\ [][PTNext]_vars

\* Pipeline-Turbo installed over the state another algorithm left behind.
InitSwitch == PTInitSwitch /\ LLTInit /\ CEInit

SpecPTSwitch == InitSwitch /\ [][PTSwitchNext]_vars

\* Pipeline-Turbo with every thread scheduled again and again.
SpecPTFair == SpecPT /\ \A t \in PTThreads : WF_vars(PTStep(t))

SpecLLT == Init /\ [][LLTNext]_vars

\* The LLT-AMD64 workload of the runs that may install any algorithm: threads 1
\* and 2 as above, thread 3 only reads the counter.
LLTReaderOnly == \A t \in LLTThreads : llt_loc[t].prog # IncrAfterPeek

\* One algorithm is installed in a run: an algorithm takes steps only while
\* the two others are in their initial states.
OneNext ==
  \/ LLTInit /\ CEInit /\ PTNext
  \/ PTInit /\ CEInit /\ LLTNext /\ LLTReaderOnly'
  \/ PTInit /\ LLTInit /\ CENext

\* A run of any one of the three algorithms.
SpecOne == Init /\ [][OneNext]_vars

SpecCE == Init /\ [][CENext]_vars

\* Cohort-Eager with every thread scheduled again and again (a thread in a
\* spin loop keeps reading the counters).
SpecCEFair == SpecCE /\ \A t \in CEThreads : WF_vars(CEStep(t))

(***************************************************************************)
(*                    Properties of Pipeline-Turbo                         *)
(***************************************************************************)
PTProgs == [k \in 1..Len(pt_clog) |-> pt_clog[k].prog]

\* Memory after the transactions of order <= k ran one at a time in order.
PTSerial(k) == SerialMem(PTProgs, k)

\* The largest order <= k whose transaction wrote a (0: the initial value).
PTLastWriter(a, k) ==
  LET ws == {j \in 1..k : a \in WritesOf(pt_clog[j].prog)}
  IN IF ws = {} THEN 0 ELSE CHOOSE j \in ws : \A i \in ws : i <= j

PTQuiescent == \A t \in PTThreads : pt_loc[t].pc = "idle"

\* The transaction can no longer abort: it is in turbo mode, flushing its redo
\* log on promotion, or past the validation loop of its commit.
PTCommitting(t) ==
  \/ pt_tx[t].mode = "turbo"
  \/ pt_loc[t].pc \in {"fl_o", "fl_m", "c_wb_o", "c_wb_m", "c_done"}

PTInCommit(t) == PTAtEnd(t) \/ pt_loc[t].pc \in {"c_val", "c_wb_o", "c_wb_m", "c_done"}

PTInTurbo(t) == pt_tx[t].mode = "turbo" \/ pt_loc[t].pc \in {"fl_o", "fl_m"}

PTReadsSerial ==
  \A t \in PTThreads : PTCommitting(t) =>
    \A i \in 1..Len(pt_loc[t].rlog) :
      LET e == pt_loc[t].rlog[i]
          o == pt_tx[t].order
      IN IF e.own THEN e.v = e.ov /\ e.w = o
         ELSE e.v = PTSerial(o - 1)[e.a] /\ e.w = PTLastWriter(e.a, o - 1)

PTFinalMem ==
  PTQuiescent => /\ Len(pt_clog) = pt_last_complete
                 /\ pt_mem = PTSerial(pt_last_complete)

PTSumNoCommit ==
  (\A t \in PTThreads : ~ PTInCommit(t)) => Sum(pt_mem) = Sum(InitMem)

PTSumNoWriter ==
  (\A t \in PTThreads : ~ PTInCommit(t) /\ ~ PTInTurbo(t)) => Sum(pt_mem) = Sum(InitMem)

\* C1 (as stated): Pipeline-Turbo is serializable in order: a transaction that
\* commits read, for every word, the value of the serial execution of all smaller
\* orders (or its own earlier write), the final memory is that of the serial
\* execution in increasing order, and the sum of the balances is unchanged in
\* every state where no commit is in progress.
C1_SerializableSumNoCommit == PTReadsSerial /\ PTFinalMem /\ PTSumNoCommit

\* C1 (amended): as above, with the sum of the balances unchanged in every state
\* where no commit is in progress and no transaction is in turbo mode or flushing
\* its redo log on promotion to turbo mode.
C1_Serializable == PTReadsSerial /\ PTFinalMem /\ PTSumNoWriter

PTKinds == {pt_clog[k].kind : k \in 1..Len(pt_clog)}

\* Transactions have committed through each of the three commit routines, no
\* transaction is running, and memory has changed.
C1_Witness ==
  /\ PTQuiescent /\ Len(pt_clog) >= 3
  /\ PTKinds = {"ro", "rw", "turbo"}
  /\ pt_mem # InitMem

\* C4: every step that changes last_complete changes it from k to k + 1.
C4_LastCompleteStepsByOne ==
  [][pt_last_complete' # pt_last_complete =>
       pt_last_complete' = pt_last_complete + 1]_vars

\* last_complete has been stored by each of the three commit routines, and a
\* writer that aborted is about to re-execute begin with its old order.
C4_Witness ==
  /\ pt_last_complete >= 3
  /\ PTKinds = {"ro", "rw", "turbo"}
  /\ \E t \in PTThreads : pt_loc[t].pc = "b_ts" /\ pt_tx[t].mode = "rw"

\* The wording of C5, with every descriptor whose dispatch is turbo counted.
C5_OneTurbo == Cardinality({t \in PTThreads : pt_tx[t].mode = "turbo"}) <= 1

\* Thread t has stored its order in last_complete and not yet reset its
\* descriptor.
PTComplete_Pending(t) == pt_loc[t].pc = "c_fin"

\* C5: at most one transaction that has not yet stored its order in
\* last_complete is in turbo mode, and it holds order last_complete + 1; every
\* other descriptor in turbo mode belongs to a transaction that is complete
\* (its order is at most last_complete) and is about to be reset.
C5_OneRunningTurbo ==
  /\ Cardinality({t \in PTThreads :
                    pt_tx[t].mode = "turbo" /\ ~ PTComplete_Pending(t)}) <= 1
  /\ \A t \in PTThreads : pt_tx[t].mode = "turbo" =>
        IF PTComplete_Pending(t) THEN pt_tx[t].order <= pt_last_complete
        ELSE pt_tx[t].order = pt_last_complete + 1

\* A transaction promoted to turbo by validation (its flushed redo log is not
\* empty) runs while a younger transaction is in its body and the turbo
\* transaction before it has not yet reset its descriptor.
C5_Witness ==
  \E t, u, w \in PTThreads :
    /\ pt_tx[t].mode = "turbo" /\ Len(pt_tx[t].writes) # 0 /\ pt_loc[t].pc = "body"
    /\ pt_tx[u].order > pt_tx[t].order /\ pt_loc[u].pc = "body"
    /\ pt_tx[w].mode = "turbo" /\ PTComplete_Pending(w)

\* C9: the reads a non-turbo transaction has returned so far are those of one
\* serial prefix k <= ts_cache, and none returned a value stored by an order
\* above ts_cache.
C9_Opaque ==
  \A t \in PTThreads : (pt_tx[t].mode # "turbo" /\ pt_loc[t].pc # "idle") =>
    LET ext == {i \in 1..Len(pt_loc[t].rlog) : ~ pt_loc[t].rlog[i].own}
    IN /\ \E k \in 0..pt_tx[t].ts_cache :
            \A i \in ext : pt_loc[t].rlog[i].v = PTSerial(k)[pt_loc[t].rlog[i].a]
       /\ \A i \in ext : pt_loc[t].rlog[i].w <= pt_tx[t].ts_cache

\* A non-turbo transaction has two reads behind it, one of a committed write,
\* while the oldest transaction has written in place.
C9_Witness ==
  \E t, u \in PTThreads :
    /\ pt_tx[t].mode # "turbo" /\ Len(pt_loc[t].rlog) >= 2
    /\ \E i \in 1..Len(pt_loc[t].rlog) : pt_loc[t].rlog[i].w >= 1
    /\ pt_tx[u].mode = "turbo" /\ Len(pt_loc[u].wl) # 0 /\ Len(pt_tx[u].writes) = 0

(***************************************************************************)
(*                     Properties of LLT-AMD64                             *)
(***************************************************************************)
LLTQuiescent == \A t \in LLTThreads : llt_loc[t].pc = "idle"

\* Nothing can abort the transaction of thread t any more: a read-only
\* transaction at its commit, a writer past its validation.
LLTCommits(t) ==
  \/ LLTAtEnd(t) /\ llt_tx[t].mode = "ro"
  \/ llt_loc[t].pc \in {"c_wb", "c_rel"}

\* Thread t has read address e1.a as it was before the write-back of some
\* writer w and address e2.a as it was after it, both in w's write set.
LLTTorn(t) ==
  \E i, j \in 1..Len(llt_loc[t].rlog) : \E w \in 1..Len(llt_wlog) :
     LET e1 == llt_loc[t].rlog[i]
         e2 == llt_loc[t].rlog[j]
     IN e1.w < w /\ w <= e2.w /\ e1.a \in llt_wlog[w] /\ e2.a \in llt_wlog[w]

LLTNoTornCommit == \A t \in LLTThreads : LLTCommits(t) => ~ LLTTorn(t)

\* Every writer of the workload increments the counter, word 1.
LLTCounterExact == LLTQuiescent => llt_mem[1] = llt_commits

\* C2: LLT-AMD64 is serializable also when tick samples of different threads
\* tie: no transaction commits having read one address of a writer's write set
\* before that writer's write-back and another one after it, and the shared
\* counter equals the number of read-write commits once all threads are idle.
C2_SerializableUnderTies == LLTNoTornCommit /\ LLTCounterExact

\* The orec of every read that returned has been appended to r_orecs.
LLTReadsLogged ==
  \A t \in LLTThreads :
     /\ Len(llt_tx[t].r_orecs) = Len(llt_loc[t].rlog)
     /\ \A i \in 1..Len(llt_loc[t].rlog) :
          llt_tx[t].r_orecs[i] = get_orec(llt_loc[t].rlog[i].a)

\* The wording of C10 that also counts a bare lock: a read that returned saw no
\* writer lock, write back under or release the orec between its two samples.
C10_ReadAbortsOnAnyLock ==
  \A t \in LLTThreads : \A i \in 1..Len(llt_loc[t].rlog) :
     /\ ~ llt_loc[t].rlog[i].lk /\ ~ llt_loc[t].rlog[i].touched
     /\ ~ llt_loc[t].rlog[i].lockedb
     /\ LLTReadsLogged

\* C10: a read of LLT-AMD64 that returns never returns a value stored by a
\* writer whose commit had not released the covering orec: no returned value was
\* loaded from a word whose writer still held the orec, and no commit wrote back
\* under the orec or released it between the two samples of a read that
\* returned; the orec of every read that returned is in r_orecs.
C10_ReadNeverSeesUnreleased ==
  /\ \A t \in LLTThreads : \A i \in 1..Len(llt_loc[t].rlog) :
       ~ llt_loc[t].rlog[i].lk /\ ~ llt_loc[t].rlog[i].touched
  /\ LLTReadsLogged

\* A read returned the value of a committed writer while another thread was
\* inside its writing commit.
C10_Witness ==
  \E t, u \in LLTThreads :
     /\ u # t
     /\ llt_loc[u].pc \in {"c_lock", "c_cas", "c_end", "c_val", "c_wb", "c_rel"}
     /\ \E i \in 1..Len(llt_loc[t].rlog) : llt_loc[t].rlog[i].w > 0

(***************************************************************************)
(*                     Properties of Cohort-Eager                          *)
(***************************************************************************)
\* The transaction has incremented cpending and not yet committed.
CEPending(t) ==
  ce_loc[t].pc \in {"c_turn", "c_all", "c_all2", "c_inpl", "c_lo", "c_val", "v_cm",
                    "v_cm2", "c_wbo", "c_wbm", "c_cm", "c_cm2"}

\* The transaction has left its `cpending < started` wait and not yet
\* incremented committed.
CECommitting(t) ==
  ce_loc[t].pc \in {"c_inpl", "c_lo", "c_val", "v_cm", "v_cm2", "c_wbo", "c_wbm",
                    "c_cm", "c_cm2"}

\* The transaction is executing its write-back loop.
CEInWriteBack(t) == ce_loc[t].pc \in {"c_wbo", "c_wbm"}

\* The writer has passed or skipped validation.
CEWriterCommits(t) ==
  ce_loc[t].pc \in {"c_wbo", "c_wbm", "c_cm", "c_cm2", "c_st", "c_lost", "c_lc"}

\* The read-only transaction is at its commit.
CEReaderCommits(t) == CEAtEnd(t) /\ Len(ce_tx[t].writes) = 0

\* Some of the stores of a write-back are made and some are not.
CEHalfWritten(t) ==
  ce_loc[t].pc = "c_wbm" \/ (ce_loc[t].pc = "c_wbo" /\ ce_loc[t].i > 1)

\* The position of a committing writer in the serial order.
CEPos(t) ==
  IF ce_loc[t].pc = "c_wbo" /\ ce_loc[t].i = 1 THEN Len(ce_clog) + 1
  ELSE CHOOSE k \in 1..Len(ce_clog) : ce_clog[k].order = ce_tx[t].order

CEReadsAt(t, k) ==
  \A i \in 1..Len(ce_loc[t].rlog) :
     ce_loc[t].rlog[i].v = CESerial(k)[ce_loc[t].rlog[i].a]

\* C3: Cohort-Eager is serializable: the writers of the commit log are in
\* increasing order, every committing writer has read the values of the serial
\* execution of the writers before it, every read-only transaction at its
\* commit has read the values of the serial execution of the writers committed
\* at its begin, and memory is the result of the serial execution whenever no
\* write-back is half done.
C3_Serializable ==
  /\ \A i, j \in 1..Len(ce_clog) : i < j => ce_clog[i].order < ce_clog[j].order
  /\ \A t \in CEThreads : CEWriterCommits(t) => CEReadsAt(t, CEPos(t) - 1)
  /\ \A t \in CEThreads : CEReaderCommits(t) => CEReadsAt(t, ce_loc[t].k0)
  /\ (\A t \in CEThreads : ~ CEHalfWritten(t)) => ce_mem = CESerial(Len(ce_clog))

\* A read-only transaction commits after two writers did, one of them before
\* its begin, while another transaction is running or committing.
C3_Witness ==
  \E t, u \in CEThreads :
     /\ t # u /\ CEReaderCommits(t) /\ ce_loc[t].k0 >= 1
     /\ Len(ce_clog) >= 2 /\ ce_mem # InitMem
     /\ ce_loc[u].pc # "b_spin"

\* While a writer executes its write-back loop, no other transaction is still
\* executing its body.
CEWriteBackAlone ==
  \A t, u \in CEThreads : (t # u /\ CEInWriteBack(t)) => ce_loc[u].pc # "body"

\* The begin of thread t returns in this step.
CEBeginReturns(t) == ce_loc[t].pc = "b_ts" /\ ce_loc'[t].pc = "body"

\* The wording of C6: (a) as above, and (b) no begin returns while some
\* transaction has incremented cpending but not yet incremented committed.
C6_NoBeginWhilePending ==
  /\ [] CEWriteBackAlone
  /\ [][\A t \in CEThreads :
          CEBeginReturns(t) => ~ \E u \in CEThreads : CEPending(u)]_vars

\* C6: (a) while a writer executes its write-back loop, every other transaction
\* whose begin has returned has incremented cpending or has finished, and (b) no
\* begin returns while some transaction is between the end of its
\* `cpending < started` wait and its increment of committed.
C6_NoBeginWhileCommitting ==
  /\ [] CEWriteBackAlone
  /\ [][\A t \in CEThreads :
          CEBeginReturns(t) => ~ \E u \in CEThreads : CECommitting(u)]_vars

\* A writer is in its write-back loop while one transaction waits for its turn
\* to commit and a third thread is inside begin, `started` incremented.
C6_Witness ==
  \E t, u, w \in CEThreads :
     /\ CEInWriteBack(t)
     /\ ce_loc[u].pc = "c_turn"
     /\ ce_loc[w].pc \in {"b_chk", "b_chk2", "b_sub"}

\* No transaction is between its increment of cpending and its increment of
\* committed.
CENobodyPending == \A t \in CEThreads : ~ CEPending(t)

\* A begin backs off only if the counters differed at one of the two reads of
\* its double check.
CEBackOffSawPending == \A t \in CEThreads : ce_loc[t].pc = "b_sub" => ce_loc[t].d1

\* The wording of C7: when committed == cpending, no transaction is between the
\* return of its begin and the end of its commit, and a begin proceeds.
C7_EqualMeansEmpty ==
  /\ ce_committed = ce_cpending =>
       \A t \in CEThreads : ce_loc[t].pc \in {"b_spin", "b_spin2", "b_add", "b_chk",
                                              "b_chk2", "b_inpl", "b_sub", "b_ts"}
  /\ CEBackOffSawPending

\* C7: in every reachable state where committed == cpending, no transaction is
\* between its increment of cpending and its increment of committed, and a
\* begin whose double check reads both counters in such states proceeds
\* without restarting.
C7_EqualMeansNobodyPending ==
  /\ ce_committed = ce_cpending => CENobodyPending
  /\ CEBackOffSawPending

\* committed == cpending after a commit, one transaction runs its body and the
\* double check of a begin has just passed.
C7_Witness ==
  /\ ce_committed = ce_cpending /\ ce_committed >= 1
  /\ \E t, u \in CEThreads : ce_loc[t].pc = "body" /\ ce_loc[u].pc = "b_inpl"

\* C8: a writer that has skipped validation (inplace == 0 and order ==
\* last_order) has seen no other transaction store to an orec or to memory
\* between the return of its begin and its commit.
C8_SkipMeansNoStore ==
  \A t \in CEThreads : ce_loc[t].skipped => ~ ce_loc[t].dirty

\* A writer is about to write back after it skipped validation, in a cohort
\* whose earlier member aborted in validation (its order is missing from the
\* commit log) and after a writer of an earlier cohort committed.
C8_Witness ==
  \E t \in CEThreads :
     /\ ce_loc[t].skipped /\ ce_loc[t].pc = "c_wbo" /\ ce_loc[t].i = 1
     /\ Len(ce_clog) >= 1
     /\ ce_tx[t].order > Len(ce_clog) + 1

\* The committed transaction of order o wrote word a.
PTWrote(o, a) == WSHas(pt_clog[o].wl, a)

\* C11: for every word a written by the committed transaction of order o, as
\* long as no transaction of a larger order has stored to a, the last store to
\* a is that of o and memory holds the last value o wrote to a.
C11_CommittedValueStays ==
  \A o \in 1..Len(pt_clog) : \A a \in Addr :
     (PTWrote(o, a) /\ pt_memw[a] <= o) =>
        /\ pt_memw[a] = o
        /\ pt_mem[a] = WSFind(pt_clog[o].wl, a)

\* Writers have committed through the writing commit and through the turbo
\* commit, the latter after its redo log was flushed at promotion and it wrote
\* a flushed word again in place.
C11_Witness ==
  /\ \E o \in 1..Len(pt_clog) : pt_clog[o].kind = "rw" /\ pt_clog[o].wl # <<>>
  /\ \E o \in 1..Len(pt_clog) :
        /\ pt_clog[o].kind = "turbo" /\ pt_clog[o].fl # <<>>
        /\ \E a \in Addr : /\ WSHas(pt_clog[o].fl, a)
                            /\ WSFind(pt_clog[o].fl, a) # WSFind(pt_clog[o].wl, a)
                            /\ pt_memw[a] = o

\* No transaction is in turbo mode and the in-place flag is clear.
CENeverInPlace == ce_inplace = 0 /\ \A t \in CEThreads : ~ ce_tx[t].turbo

\* A step that stores to memory or to an orec is a step of a transaction in
\* its write-back loop, and what it stores to memory is a value of its redo log.
CEStoresInWriteBack ==
  (ce_mem' # ce_mem \/ ce_orec' # ce_orec) =>
     \E t \in CEThreads :
        /\ CEInWriteBack(t) /\ ce_loc'[t] # ce_loc[t]
        /\ \A a \in Addr : ce_mem'[a] # ce_mem[a] =>
              /\ WSHas(ce_tx[t].writes, a)
              /\ ce_mem'[a] = WSFind(ce_tx[t].writes, a)

\* The write-back loop is entered from the validation decision or from a
\* validation that passed, and a transaction that entered it does not roll back.
CENoAbortAfterStore ==
  \A t \in CEThreads :
     /\ (~ CEWriterCommits(t) /\ ce_loc'[t].pc = "c_wbo") => ce_loc[t].pc \in {"c_lo", "c_val"}
     /\ (CEWriterCommits(t) /\ ce_loc'[t].pc = "b_spin") => ce_loc'[t].prog = <<>>

\* A transaction rolls back in this step.
CERollsBack(t) ==
  ce_loc[t].pc = "v_lc" /\ ce_loc'[t].pc = "b_spin"

\* When a transaction rolls back, every word of its redo log holds the value
\* of the serial execution of the committed writers, unless a write-back of
\* another transaction is half done.
CERollbackLeavesCommitted ==
  \A t \in CEThreads :
     (CERollsBack(t) /\ \A u \in CEThreads : ~ CEHalfWritten(u)) =>
        \A i \in 1..Len(ce_tx[t].writes) :
           ce_mem'[ce_tx[t].writes[i][1]] = CESerial(Len(ce_clog))[ce_tx[t].writes[i][1]]

PTAborts(t) == pt_loc[t].pc \in {"r_orec", "val", "c_val"} /\ pt_loc'[t].pc = "b_ts"

\* A transaction that has seen every smaller order complete does not abort:
\* the oldest transaction aborts only with a ts_cache sampled before it became
\* the oldest, and its retry samples last_complete == order - 1.
PTOldestAbortsOnce ==
  \A t \in PTThreads : PTAborts(t) => pt_tx[t].ts_cache < pt_tx[t].order - 1

\* Every order is eventually completed: last_complete never decreases, and
\* under fairness every order up to the bound is handed out.
PTEveryOrderCompletes == <>(pt_last_complete = PTMaxTx)

\* C13: under weak fairness of every thread, every transaction that obtained
\* an order eventually commits, and a transaction aborts at most once after it
\* became the oldest.
C13_EveryOrderCommits == PTEveryOrderCompletes /\ [][PTOldestAbortsOnce]_vars

\* The oldest transaction (order == last_complete + 1) has aborted with a
\* non-empty redo log and is about to re-execute begin while two younger
\* transactions hold orders.
C13_Witness ==
  \E t \in PTThreads :
     /\ pt_loc[t].pc = "b_ts" /\ pt_tx[t].mode = "rw"
     /\ pt_tx[t].order = pt_last_complete + 1
     /\ pt_last_complete >= 1
     /\ \A u \in PTThreads \ {t} : pt_tx[u].order > pt_tx[t].order

\* Thread t is inside alg_tm_begin.
CEInBegin(t) ==
  ce_loc[t].pc \in {"b_spin", "b_spin2", "b_add", "b_chk", "b_chk2", "b_inpl", "b_sub", "b_ts"}

\* Thread t is about to increment `started` and the model's bound is reached.
CEAtBound(t) == ce_loc[t].pc = "b_add" /\ ce_started >= CEMaxStarted

LLTInCommitRW(t) ==
  llt_loc[t].pc \in {"c_lock", "c_cas", "c_end", "c_val", "c_wb", "c_rel", "rb"}

\* The orecs in the lock list of thread t.
LLTLockList(t) == {llt_tx[t].locks[i] : i \in 1..Len(llt_tx[t].locks)}

\* Every orec is unlocked or holds the lock id of one transaction inside its
\* writing commit that has the orec in its lock list.
LLTLockedByCommitter ==
  \A o \in Addr : IsLocked(llt_orec[o].v) =>
     \E t \in LLTThreads : /\ llt_orec[o].v = my_lock(t)
                            /\ LLTInCommitRW(t)
                            /\ o \in LLTLockList(t)

\* No orec is in two lock lists.
LLTLockListsDisjoint ==
  \A t, u \in LLTThreads : t # u => LLTLockList(t) \cap LLTLockList(u) = {}

\* An orec in a lock list holds the list owner's lock id, or the owner has
\* already released or restored it in the loop it is executing.
LLTLockListHeld ==
  \A t \in LLTThreads : \A i \in 1..Len(llt_tx[t].locks) :
     \/ llt_orec[llt_tx[t].locks[i]].v = my_lock(t)
     \/ llt_loc[t].pc \in {"c_rel", "rb"} /\ i < llt_loc[t].i

\* Thread t reads, in the acquire loop, an orec locked by another transaction.
LLTFindsLocked(t) ==
  /\ \/ LLTAtEnd(t) /\ llt_tx[t].mode = "rw"
     \/ llt_loc[t].pc = "c_lock"
  /\ LET v == llt_orec[get_orec(llt_tx[t].writes[llt_loc[t].i][1])].v
     IN IsLocked(v) /\ v # my_lock(t)

\* Thread t executes a CAS that fails.
LLTLosesCAS(t) ==
  /\ llt_loc[t].pc = "c_cas"
  /\ llt_orec[get_orec(llt_tx[t].writes[llt_loc[t].i][1])].v # llt_loc[t].ivt

\* Thread t has aborted: it rolls back or is about to retry.
LLTAborted(t) == llt_loc[t].pc \in {"rb", "retry"}

\* A committer that finds an orec of its write set locked by another
\* transaction, or loses the CAS, aborts in that step.
LLTLoserAborts ==
  \A t \in LLTThreads :
     ((LLTFindsLocked(t) \/ LLTLosesCAS(t)) /\ llt_loc'[t] # llt_loc[t]) => LLTAborted(t)'

\* A thread in the acquire loop can always take its next step: it never waits.
LLTAcquireNeverWaits ==
  \A t \in LLTThreads :
     llt_loc[t].pc \in {"c_lock", "c_cas"} => ENABLED (LLTLockRead(t) \/ LLTLockCAS(t))

\* The wording of C15, with no orec in two lock lists.
C15_LockListsDisjoint ==
  /\ [] (LLTLockedByCommitter /\ LLTLockListsDisjoint /\ LLTAcquireNeverWaits)
  /\ [][LLTLoserAborts]_vars

\* C15: every orec is unlocked or holds the lock id of exactly one transaction
\* inside its writing commit, an orec that holds a lock id is in the lock list
\* of that transaction only, every other entry of a lock list was already
\* released or restored by its owner, and a committer that finds an orec of
\* its write set held by another transaction aborts without waiting.
C15_OneHolder ==
  /\ [] (LLTLockedByCommitter /\ LLTLockListHeld /\ LLTAcquireNeverWaits)
  /\ [][LLTLoserAborts]_vars

\* Three committers whose write sets share word 1: one has released it and
\* still holds word 2, the second holds word 1, which both have in their lock
\* lists, and the third is about to find it locked.
C15_Witness ==
  \E t, u, w \in LLTThreads :
     /\ llt_loc[t].pc = "c_rel" /\ llt_orec[2].v = my_lock(t)
     /\ llt_orec[1].v = my_lock(u) /\ 1 \in LLTLockList(t) \cap LLTLockList(u)
     /\ LLTFindsLocked(w)

\* The switch leaves timestamp at least its previous value and at least
\* timestamp_max, last_complete equal to timestamp, and every order at -1.
PTSwitchResets ==
  (~ pt_installed /\ pt_installed') =>
     /\ pt_timestamp' >= pt_timestamp /\ pt_timestamp' >= pt_timestamp_max
     /\ pt_last_complete' = pt_timestamp'
     /\ \A t \in PTThreads : pt_tx'[t].order = -1

\* The first transaction to take an order after the switch takes
\* last_complete + 1.
PTFirstOrder ==
  \A t \in PTThreads :
     (pt_installed /\ pt_timestamp = pt_last_complete /\ pt_clog = <<>>
        /\ pt_tx'[t].order # pt_tx[t].order)
     => pt_tx'[t].order = pt_last_complete' + 1

\* Before any transaction has completed, the transaction that holds order
\* last_complete + 1 is in turbo mode once its begin has returned.
PTFirstIsTurbo ==
  \A t \in PTThreads :
     (pt_installed /\ pt_clog = <<>> /\ pt_tx[t].order = pt_last_complete + 1
        /\ pt_loc[t].pc \notin {"idle", "b_ts"})
     => pt_tx[t].mode = "turbo"

\* C16: PipelineTurboOnSwitchTo leaves timestamp >= its previous value and
\* >= timestamp_max, last_complete == timestamp and every order == -1, and the
\* first transaction to begin afterwards receives order last_complete + 1 and
\* is in turbo mode when its begin returns.
C16_SwitchThenTurbo ==
  /\ [][PTSwitchResets /\ PTFirstOrder]_vars
  /\ [] PTFirstIsTurbo

\* After a switch with timestamp_max at its bound, the first transaction holds
\* the next order and runs its body in turbo mode.
C16_Witness ==
  /\ pt_installed /\ pt_timestamp_max = PTMaxStamp /\ pt_clog = <<>>
  /\ pt_last_complete = PTMaxStamp
  /\ \E t \in PTThreads :
        /\ pt_tx[t].order = PTMaxStamp + 1 /\ pt_tx[t].mode = "turbo"
        /\ pt_loc[t].pc = "body"

\* PipelineTurboValidate, called from a read of thread t, returns in this step
\* (after its read-set check, or after the flush that follows it).
PTValidateReturns(t) ==
  pt_loc[t].pc \in {"val", "fl_m"} /\ pt_loc'[t].pc = "body"

PTPromotesIffWrites ==
  \A t \in PTThreads : PTValidateReturns(t) =>
     /\ pt_tx'[t].mode = "turbo" <=>
           (pt_tx'[t].ts_cache = pt_tx'[t].order - 1 /\ Len(pt_tx'[t].writes) # 0)
     /\ pt_tx'[t].mode # "turbo" => pt_tx'[t].mode = pt_tx[t].mode
     /\ pt_tx'[t].mode = "turbo" =>
           \A i \in 1..Len(pt_tx'[t].writes) :
              LET a == pt_tx'[t].writes[i][1]
              IN /\ pt_orec'[get_orec(a)] = pt_tx'[t].order
                 /\ pt_mem'[a] = pt_tx'[t].writes[i][2]

\* The flush stores to a word only under an orec it has already marked.
PTFlushMarksFirst ==
  \A t \in PTThreads : \A a \in Addr :
     (pt_loc[t].pc = "fl_m" /\ pt_loc'[t] # pt_loc[t] /\ pt_mem'[a] # pt_mem[a])
     => pt_orec[get_orec(a)] = pt_tx[t].order

PTTakesOrder(t) == pt_tx[t].order = -1 /\ pt_tx'[t].order # -1

\* Thread t gives up its order in this step.
PTDropsOrder(t) == pt_tx[t].order # -1 /\ pt_tx'[t].order # pt_tx[t].order

\* An order is taken only by the begin of a fresh transaction, as 1 + the
\* fetched timestamp; it is kept by a rollback; it is reset to -1 only by a
\* commit that has stored it in last_complete.
PTOrderLifeCycle ==
  \A t \in PTThreads :
     /\ PTTakesOrder(t) =>
           /\ pt_loc[t].pc = "idle" /\ pt_loc'[t].pc = "b_ts"
           /\ pt_tx'[t].order = 1 + pt_timestamp /\ pt_timestamp' = pt_timestamp + 1
     /\ PTDropsOrder(t) =>
           /\ PTComplete_Pending(t) /\ pt_tx'[t].order = -1
           /\ pt_tx[t].order <= pt_last_complete
     /\ PTAborts(t) => pt_tx'[t].order = pt_tx[t].order /\ pt_tx[t].order # -1

\* The threads whose order field holds an order.
PTHolders == {t \in PTThreads : pt_tx[t].order # -1}

\* The held orders are pairwise distinct and at most timestamp.
PTOrdersDistinct ==
  /\ \A t, u \in PTHolders : t # u => pt_tx[t].order # pt_tx[u].order
  /\ \A t \in PTHolders : pt_tx[t].order >= 1 /\ pt_tx[t].order <= pt_timestamp

\* Every value in (last_complete, timestamp] is held by exactly one thread.
PTWindowHeld ==
  \A o \in (pt_last_complete + 1)..pt_timestamp :
     Cardinality({t \in PTHolders : pt_tx[t].order = o}) = 1

\* The wording of C18: every held order is greater than last_complete.
C18_HeldOrdersAboveLastComplete ==
  /\ [][PTOrderLifeCycle]_vars
  /\ [] (PTOrdersDistinct /\ PTWindowHeld)
  /\ [] (\A t \in PTHolders : pt_tx[t].order > pt_last_complete)

\* C18: an order is assigned only at the begin of a fresh transaction (as 1 +
\* the fetched timestamp), kept across every rollback and retry, and reset to
\* -1 only by a commit; the held orders are pairwise distinct and at most
\* timestamp, every value in (last_complete, timestamp] is held by exactly one
\* transaction, and every held order is greater than last_complete except
\* that of a commit that has stored last_complete and not yet reset its order.
C18_OrdersPartitionWindow ==
  /\ [][PTOrderLifeCycle]_vars
  /\ [] (PTOrdersDistinct /\ PTWindowHeld)
  /\ [] (\A t \in PTHolders :
           pt_tx[t].order > pt_last_complete \/ PTComplete_Pending(t))

\* A transaction that aborted retries with its old order while a younger
\* transaction runs, and a completed transaction still holds an order that
\* last_complete has passed.
C18_Witness ==
  \E t, u, w \in PTThreads :
     /\ pt_loc[t].pc = "b_ts" /\ pt_tx[t].mode = "rw" /\ pt_tx[t].order # -1
     /\ pt_tx[u].order > pt_tx[t].order /\ pt_loc[u].pc = "body"
     /\ PTComplete_Pending(w) /\ pt_tx[w].order < pt_last_complete

\* Thread t raises an abort in this step: it leaves the transaction it is
\* running for the begin of its retry.
PTAbortStep(t) == pt_loc[t].pc \notin {"idle", "b_ts"} /\ pt_loc'[t].pc = "b_ts"

\* The transaction of thread t has stored to an orec or to memory.
PTHasStored(t) ==
  \E a \in Addr : pt_orec[get_orec(a)] = pt_tx[t].order \/ pt_memw[a] = pt_tx[t].order

\* An abort is raised only by the orec check of a read, by the validation
\* inside a read or by the validation loop of a commit, by a transaction that
\* is not in turbo mode and has stored nothing.
PTAbortsBeforeStoring ==
  \A t \in PTThreads : PTAbortStep(t) =>
     /\ pt_loc[t].pc \in {"r_orec", "val", "c_val"}
     /\ pt_tx[t].mode # "turbo"
     /\ ~ PTHasStored(t)

\* A transaction in turbo mode is at no step that can abort, and neither is a
\* transaction that has stored to an orec or to memory.
PTStoredCannotAbort ==
  \A t \in PTThreads :
     (pt_tx[t].mode = "turbo" \/ (pt_tx[t].order # -1 /\ PTHasStored(t)))
     => pt_loc[t].pc \notin {"r_orec", "r_lc", "r_fc", "val", "c_val"}

\* C19: a transaction never aborts after it has stored to shared memory or to
\* an orec: in turbo mode no step raises an abort, and the writing commit does
\* not abort after its validation loop.
C19_NoAbortAfterStore == [][PTAbortsBeforeStoring]_vars /\ [] PTStoredCannotAbort

\* A turbo transaction is about to read a word whose orec it has marked with
\* its own order, above its ts_cache, while a younger writer that aborted is
\* about to retry.
C19_Witness ==
  \E t, u \in PTThreads :
     /\ pt_tx[t].mode = "turbo" /\ PTInBody(t) /\ PTOp(t).k = "r"
     /\ pt_orec[get_orec(PTOp(t).a)] = pt_tx[t].order
     /\ pt_tx[t].order > pt_tx[t].ts_cache
     /\ pt_loc[u].pc = "b_ts" /\ pt_tx[u].mode = "rw" /\ pt_tx[u].order > pt_tx[t].order

\* Thread t executes a step of the restore loop of LLTAMD64Rollback.
LLTRestores(t) == llt_loc[t].pc = "rb" /\ llt_loc'[t] # llt_loc[t]

\* The rollback of thread t ends in this step (with or without a lock held).
LLTRollbackEnds(t) == llt_loc[t].pc # "retry" /\ llt_loc'[t].pc = "retry"

\* Each store of the restore loop is to an orec that holds the transaction's
\* lock id, and puts back the version the transaction's CAS replaced.
LLTRestoresVersion ==
  \A t \in LLTThreads : LLTRestores(t) =>
     LET o == llt_tx[t].locks[llt_loc[t].i]
     IN /\ llt_orec[o].v = my_lock(t)
        /\ llt_orec'[o].v = llt_orec[o].g /\ ~ IsLocked(llt_orec'[o].v)
        /\ \A q \in Addr \ {o} : llt_orec'[q] = llt_orec[q]

\* When the rollback ends, every orec of the lock list holds the version it
\* held before the CAS, no orec holds the transaction's lock id, and the three
\* lists are empty.
LLTRollbackLeavesClean ==
  \A t \in LLTThreads : LLTRollbackEnds(t) =>
     /\ \A o \in LLTLockList(t) : llt_orec'[o].v = llt_orec[o].g
     /\ \A o \in Addr : llt_orec'[o].v # my_lock(t)
     /\ llt_tx'[t].r_orecs = <<>> /\ llt_tx'[t].writes = <<>> /\ llt_tx'[t].locks = <<>>

\* Memory is stored to only by the write-back, and a transaction that has
\* reached its write-back goes on to release and finish.
LLTOnlyCommittersStore ==
  /\ llt_mem' # llt_mem =>
        \E t \in LLTThreads : llt_loc[t].pc = "c_wb" /\ llt_loc'[t] # llt_loc[t]
  /\ \A t \in LLTThreads :
        llt_loc[t].pc \in {"c_wb", "c_rel"} => llt_loc'[t].pc \in {"c_wb", "c_rel", "idle"}
  /\ \A t \in LLTThreads : LLTRestores(t) \/ LLTRollbackEnds(t) => llt_mem' = llt_mem

LLTOrecMonotone ==
  \A o \in Addr :
     LET v == llt_orec[o].v
         w == llt_orec'[o].v
     IN w # v =>
          IF IsLocked(w) THEN ~ IsLocked(v) /\ llt_orec'[o].g = v
          ELSE /\ IsLocked(v)
               /\ IF llt_loc[v - LockBit].pc = "c_rel"
                  THEN w = llt_loc[v - LockBit].end_time /\ w > llt_orec[o].g
                  ELSE llt_loc[v - LockBit].pc = "rb" /\ w = llt_orec[o].g

\* Pipeline-Turbo: a store that changes an orec stores the order of the storing
\* transaction, which is above the value it replaces.
PTOrecMonotone ==
  \A o \in Addr : pt_orec'[o] # pt_orec[o] =>
     /\ pt_orec'[o] > pt_orec[o]
     /\ \E t \in PTThreads : pt_loc'[t] # pt_loc[t] /\ pt_orec'[o] = pt_tx[t].order

\* Cohort-Eager: the same.
CEOrecMonotone ==
  \A o \in Addr : ce_orec'[o] # ce_orec[o] =>
     /\ ce_orec'[o] > ce_orec[o]
     /\ \E t \in CEThreads : ce_loc'[t] # ce_loc[t] /\ ce_orec'[o] = ce_tx[t].order

\* C21: in each of the three algorithms the values an orec takes while
\* unlocked never decrease: in LLT-AMD64 a commit releases with an end_time
\* greater than the saved version and a rollback restores exactly the saved
\* version; in Pipeline-Turbo and Cohort-Eager an orec is only stored the order
\* of the storing transaction, in increasing order.
C21_OrecsNeverDecrease == [][LLTOrecMonotone /\ PTOrecMonotone /\ CEOrecMonotone]_vars

\* LLT-AMD64: a transaction is about to restore an orec it holds to the version
\* a commit had released it with, while the other orec carries the end time of
\* a commit.
C21_Witness ==
  \E t \in LLTThreads :
     /\ llt_loc[t].pc = "rb"
     /\ llt_tx[t].locks # << >>
     /\ llt_orec[llt_tx[t].locks[1]].v = my_lock(t)
     /\ llt_orec[llt_tx[t].locks[1]].g >= 1
     /\ \E o \in Addr : ~ IsLocked(llt_orec[o].v) /\ llt_orec[o].v >= 2

(***************************************************************************)
(* Cohort-Eager: the abort of commit-time validation.                      *)
(***************************************************************************)
\* Thread t is in validate, in the branch taken for a changed orec.
CEInValidateAbort(t) == ce_loc[t].pc \in {"v_cm", "v_cm2", "v_lc"}

\* validate takes the abort branch exactly when the orec it examines is newer
\* than ts_cache.
CEValidateFinds ==
  \A t \in CEThreads :
     ce_loc[t].pc = "c_val" /\ ce_loc'[t] # ce_loc[t] =>
        (ce_loc'[t].pc = "v_cm" <=>
           ce_orec[ce_tx[t].r_orecs[ce_loc[t].i]] > ce_tx[t].ts_cache)

\* The abort branch adds one to committed, then stores the order to
\* last_complete, and its last step is the abort: the thread is at the start
\* of alg_tm_begin with empty lists.
CEAbortPublishes ==
  \A t \in CEThreads :
     /\ ce_loc[t].pc = "v_cm2" /\ ce_loc'[t] # ce_loc[t] =>
          ce_committed' = ce_committed + 1 /\ ce_loc'[t].pc = "v_lc"
     /\ ce_loc[t].pc = "v_lc" /\ ce_loc'[t] # ce_loc[t] =>
          /\ ce_last_complete' = ce_tx[t].order
          /\ ce_last_complete = ce_tx[t].order - 1
          /\ ce_loc'[t].pc = "b_spin"
          /\ ce_tx'[t].r_orecs = << >> /\ ce_tx'[t].writes = << >>

\* A transaction in validate, and one in the abort branch, has stored nothing:
\* no orec carries its order, it is not in the commit log, and none of its
\* steps there changes memory, an orec or last_order.
CEValidatorStoredNothing ==
  \A t \in CEThreads :
     ce_loc[t].pc = "c_val" \/ CEInValidateAbort(t) =>
        /\ \A o \in Addr : ce_orec[o] # ce_tx[t].order
        /\ \A k \in 1..Len(ce_clog) : ce_clog[k].order # ce_tx[t].order
        /\ ce_loc'[t] # ce_loc[t] =>
              /\ ce_mem' = ce_mem /\ ce_orec' = ce_orec
              /\ ce_last_order' = ce_last_order

\* Once the aborting transaction has stored its order, the wait of the
\* transaction with the next order is over.
CEAbortReleasesNext ==
  \A t, u \in CEThreads :
     /\ ce_loc[t].pc = "v_lc" /\ ce_loc'[t] # ce_loc[t]
     /\ ce_loc[u].pc = "c_turn" /\ ce_tx[u].order = ce_tx[t].order + 1
     => ce_last_complete' = ce_tx'[u].order - 1 /\ ce_loc'[u].pc = "c_turn"

\* The retry passes through ADD(&started, 1) again; started stays at or above
\* cpending.
CERetryCountsAgain ==
  /\ ce_cpending <= ce_started
  /\ ce_cpending' <= ce_started'
  /\ \A t \in CEThreads :
        ce_loc'[t].pc = "body" /\ ce_loc[t].pc # "body" => ce_loc[t].pc = "b_ts"
  /\ \A t \in CEThreads :
        ce_loc'[t].pc = "b_chk" /\ ce_loc[t].pc # "b_chk" => ce_started' = ce_started + 1

\* C22: when commit-time validation of Cohort-Eager finds an orec of r_orecs
\* newer than ts_cache, the transaction adds one to committed and stores its
\* order to last_complete before it aborts, having stored nothing to memory,
\* to an orec or to last_order; the transaction with the next order can then
\* leave its wait for last_complete, and the retry adds one to started again,
\* with cpending <= started throughout.
C22_ValidationAbortPublishes ==
  [][/\ CEValidateFinds
     /\ CEAbortPublishes
     /\ CEValidatorStoredNothing
     /\ CEAbortReleasesNext
     /\ CERetryCountsAgain]_vars

\* A transaction is about to store its order to last_complete and abort while
\* the transaction with the next order waits for its turn.
C22_Witness ==
  \E t, u \in CEThreads :
     /\ ce_loc[t].pc = "v_lc"
     /\ ce_loc[u].pc = "c_turn" /\ ce_tx[u].order = ce_tx[t].order + 1
     /\ ce_last_complete = ce_tx[t].order - 1

(***************************************************************************)
(* Cohort-Eager: the read-only transaction.                                *)
(***************************************************************************)
\* Thread t is counted in started: it is past ADD(&started, 1) of its begin
\* and has neither backed off nor finished its transaction.
CECounted(t) == ce_loc[t].pc \notin {"b_spin", "b_spin2", "b_add"}

\* Thread t is in a transaction with an empty redo log that has not entered
\* the writing commit, or in alg_tm_begin.
CENoWritesYet(t) ==
  /\ Len(ce_tx[t].writes) = 0
  /\ CEInBegin(t) \/ ce_loc[t].pc = "body"

CEOne(b) == IF b THEN 1 ELSE 0

\* Begin, body and commit of a transaction that has written nothing store to
\* no shared variable but started, to which each step adds exactly what the
\* thread's being counted changes by.
CEReaderStoresNothing ==
  \A t \in CEThreads :
     CENoWritesYet(t) /\ ce_loc'[t] # ce_loc[t] =>
        /\ ce_cpending' = ce_cpending /\ ce_committed' = ce_committed
        /\ ce_last_order' = ce_last_order /\ ce_last_complete' = ce_last_complete
        /\ ce_inplace' = ce_inplace /\ ce_orec' = ce_orec /\ ce_mem' = ce_mem
        /\ ce_started' - ce_started = CEOne(CECounted(t)') - CEOne(CECounted(t))

\* The commit of a transaction with an empty redo log is one step, which ends
\* the transaction with the thread not counted in started.
CEReaderCommitsAtOnce ==
  \A t \in CEThreads :
     CEReaderCommits(t) /\ ce_loc'[t] # ce_loc[t] =>
        /\ ce_loc'[t].pc = "b_spin" /\ ce_loc'[t].prog = << >>
        /\ ce_started' = ce_started - 1

\* started counts the threads counted in it and the orders completed.
CEStartedCounts ==
  ce_started = Cardinality({t \in CEThreads : CECounted(t)}) + ce_last_complete

\* The read-only commit has no wait: it can always be taken.
CEReaderNeverWaits ==
  \A t \in CEThreads : CEReaderCommits(t) => ENABLED CECommitRO(t)

\* C23: a Cohort-Eager transaction that commits with an empty redo log stores
\* to no shared variable but started, which its commit restores (started
\* counts it from its begin to its commit and not after), and its commit
\* never waits.
C23_ReaderChangesNothing ==
  /\ [][CEReaderStoresNothing /\ CEReaderCommitsAtOnce]_vars
  /\ [](CEStartedCounts /\ CEReaderNeverWaits)

\* The reader has read both words and is at its commit while a writer of its
\* cohort waits for it in `while (cpending < started)` and an earlier writer
\* has committed.
C23_Witness ==
  \E t, u \in CEThreads :
     /\ CEReaderCommits(t) /\ ce_loc[t].prog = Audit
     /\ ce_loc[u].pc \in {"c_all", "c_all2"} /\ ce_cpending < ce_started
     /\ ce_last_complete >= 1

(***************************************************************************)
(* Cohort-Eager: one transaction at a time commits.                        *)
(***************************************************************************)
\* Thread t has left its wait for last_complete == order - 1 and has not yet
\* stored its order to last_complete.
CEInTurn(t) ==
  ce_loc[t].pc \in {"c_all", "c_all2", "c_inpl", "c_lo", "c_val", "v_cm", "v_cm2", "v_lc",
                    "c_wbo", "c_wbm", "c_cm", "c_cm2", "c_st", "c_lost", "c_lc"}

\* Thread t has executed committed++ and not yet stored its order.
CEIncremented(t) == ce_loc[t].pc \in {"v_lc", "c_st", "c_lost", "c_lc"}

CEOneInTurn ==
  /\ Cardinality({t \in CEThreads : CEInTurn(t)}) <= 1
  /\ \A t \in CEThreads : CEInTurn(t) => ce_last_complete = ce_tx[t].order - 1

\* Between the load and the store of committed++ the counter keeps the value
\* loaded.
CELoadedIsCurrent ==
  \A t \in CEThreads : ce_loc[t].pc \in {"v_cm2", "c_cm2"} => ce_loc[t].tmp = ce_committed

\* committed counts the transactions that have executed committed++: those
\* whose order is completed and the one that has incremented and not yet
\* stored its order.
CECommittedCounts ==
  ce_committed = ce_last_complete + Cardinality({t \in CEThreads : CEIncremented(t)})

\* The store of committed++ adds one to the value committed has at the store,
\* and nothing else changes committed.
CENoLostIncrement ==
  /\ \A t \in CEThreads :
        ce_loc[t].pc \in {"v_cm2", "c_cm2"} /\ ce_loc'[t] # ce_loc[t] =>
           ce_committed' = ce_committed + 1
  /\ ce_committed' # ce_committed =>
        \E t \in CEThreads : ce_loc[t].pc \in {"v_cm2", "c_cm2"} /\ ce_loc'[t] # ce_loc[t]

\* C24: in Cohort-Eager at most one transaction at a time is between the end
\* of its wait for last_complete == order - 1 and its store of last_complete
\* (on the committing path and on the path of the validation abort); no
\* committed++ loses an increment, and committed equals the number of
\* transactions that have executed the increment.
C24_OneCommitterNoLostIncrement ==
  /\ [](CEOneInTurn /\ CELoadedIsCurrent /\ CECommittedCounts)
  /\ [][CENoLostIncrement]_vars

\* A committer is between the load and the store of its committed++, after an
\* earlier increment, while the transaction with the next order waits for its
\* turn.
C24_Witness ==
  \E t, u \in CEThreads :
     /\ ce_loc[t].pc = "c_cm2" /\ ce_committed >= 1
     /\ ce_loc[u].pc = "c_turn" /\ ce_tx[u].order = ce_tx[t].order + 1

(***************************************************************************)
(* Pipeline-Turbo: only the oldest transaction stores.                     *)
(***************************************************************************)
\* Every step that changes memory or an orec is a step of the thread whose
\* order is last_complete + 1, and it stores nothing but that order to orecs.
PTOnlyOldestStores ==
  pt_mem' # pt_mem \/ pt_orec' # pt_orec =>
     \E t \in PTThreads :
        /\ pt_loc'[t] # pt_loc[t]
        /\ pt_tx[t].order = pt_last_complete + 1
        /\ pt_last_complete' = pt_last_complete
        /\ \A o \in Addr : pt_orec'[o] # pt_orec[o] => pt_orec'[o] = pt_tx[t].order

\* No step of a thread with a larger order changes memory or an orec.
PTYoungerStoresNothing ==
  \A t \in PTThreads :
     pt_loc'[t] # pt_loc[t] /\ pt_tx[t].order > pt_last_complete + 1 =>
        pt_mem' = pt_mem /\ pt_orec' = pt_orec

PTOrecsBounded == \A o \in Addr : pt_orec[o] <= pt_last_complete + 1

\* C25: in Pipeline-Turbo every store to memory and every store to an orec is
\* made by the transaction whose order is last_complete + 1 at the store (in
\* place in turbo mode, in the flush of a promotion, or in the write-back of
\* a commit); a transaction with a larger order stores to neither, and every
\* orec is at most last_complete + 1.
C25_OnlyOldestStores ==
  /\ [][PTOnlyOldestStores /\ PTYoungerStoresNothing]_vars
  /\ []PTOrecsBounded

\* The oldest transaction has marked an orec in its commit write-back, after
\* an earlier commit, while a younger transaction holds a buffered write.
C25_Witness ==
  \E t, u \in PTThreads :
     /\ pt_loc[t].pc = "c_wb_m" /\ pt_tx[t].order = pt_last_complete + 1
     /\ \E o \in Addr : pt_orec[o] = pt_tx[t].order
     /\ pt_tx[u].order > pt_tx[t].order /\ Len(pt_tx[u].writes) > 0
     /\ pt_last_complete >= 1

(***************************************************************************)
(* Cohort-Eager: the counters.                                             *)
(***************************************************************************)
CECountersOrdered ==
  /\ ce_last_complete <= ce_committed
  /\ ce_committed <= ce_cpending
  /\ ce_cpending <= ce_started
  /\ ce_committed - ce_last_complete <= 1

\* Thread t takes its order: tx->order = ADD(&cpending, 1).
CETakesOrder(t) == ce_loc[t].pc = "body" /\ ce_loc'[t].pc = "c_turn"

\* Every order taken is one greater than the order taken before (cpending is
\* the last order taken, 0 at the start), and cpending changes only when an
\* order is taken.
CEOrdersConsecutive ==
  /\ \A t \in CEThreads :
        CETakesOrder(t) =>
           ce_tx'[t].order = ce_cpending + 1 /\ ce_cpending' = ce_tx'[t].order
  /\ ce_cpending' # ce_cpending => \E t \in CEThreads : CETakesOrder(t)

\* The orders held by the transactions that have taken one and not finished
\* are distinct, greater than last_complete and at most cpending.
CEOrdersHeld ==
  \A t \in CEThreads :
     CEPending(t) \/ CEIncremented(t) =>
        /\ ce_last_complete < ce_tx[t].order /\ ce_tx[t].order <= ce_cpending
        /\ \A u \in CEThreads :
              u # t /\ (CEPending(u) \/ CEIncremented(u)) => ce_tx[u].order # ce_tx[t].order

\* No thread is inside a transaction: every thread is before the first read
\* of alg_tm_begin.
CEQuiescent == \A t \in CEThreads : ce_loc[t].pc = "b_spin"

CEQuiescentEqual ==
  CEQuiescent =>
     ce_started = ce_cpending /\ ce_cpending = ce_committed
                              /\ ce_committed = ce_last_complete

\* C26: in every reachable state of Cohort-Eager last_complete <= committed
\* <= cpending <= started and committed - last_complete <= 1; the orders
\* taken at commit are 1, 2, 3, ... in turn, none skipped and none taken
\* twice; and when no thread is inside a transaction the four counters are
\* equal.
C26_CountersInStep ==
  /\ [](CECountersOrdered /\ CEOrdersHeld /\ CEQuiescentEqual)
  /\ [][CEOrdersConsecutive]_vars

\* No thread is inside a transaction after three orders were taken, of which
\* two committed and one was aborted by its validation.
C26_Witness ==
  /\ CEQuiescent
  /\ ce_last_complete = 3 /\ ce_started = 3
  /\ Len(ce_clog) = 2

====
